---- MODULE Spec2Model ----
(***************************************************************************)
(* Model of the chat and credits paths of solana-ai-chat:                  *)
(*   - SolanaToolExecutor.executeTool          (services/solana-tools.ts)  *)
(*   - claude/openai/gemini/doubaoWithTools    (services/ai-with-tools.ts) *)
(*   - the basic chat services                 (services/ai-providers.ts)  *)
(*   - AIProvider: sendMessage and the conversation operations             *)
(*                                             (providers/AIProvider.tsx)  *)
(*   - CreditsProvider: purchaseCredits, useCredits, loadCredits           *)
(*                                        (providers/CreditsProvider.tsx)  *)
(*   - SolanaProvider: connect, disconnect, fetchBalance, refreshBalance,  *)
(*     sendSol and the saved-wallet load   (providers/SolanaProvider.tsx)  *)
(* Strings that the code only passes around are TLA+ strings; strings the  *)
(* code builds by interpolation are tuples of their parts; JSON text is a  *)
(* record that says whether it parses and, if so, to what.                 *)
(***************************************************************************)
EXTENDS Integers, Sequences, FiniteSets, TLC

\* ------------------------------------------------------------------ bounds

\* Provider requests one run of the model may issue when the provider is free
\* to answer anything.
MaxRequests == 2

\* Provider requests one run may issue against the provider stub that answers
\* every round with a tool request.
MaxProbeRequests == 13

\* Longest list of tool requests drawn from ToolPool in one provider response.
MaxCalls == 2

\* The clock reading up to which the user starts new conversations.
MaxClock == 2

\* Calls of purchaseCredits in one run.
MaxPurchases == 2

\* Calls of useCredits in one run.
MaxUses == 2

\* Calls of connect in one run.
MaxConnects == 2

\* Transfers the wallet is asked for in one run of the wallet screen.
MaxSends == 1

\* ------------------------------------------------------------ JS values

\* JavaScript's undefined / null, and a field that is absent from an object.
Undefined == "undefined"

Providers == {"claude", "openai", "gemini", "doubao"}

\* The providers whose loop awaits the tools one after the other.
SequentialProviders == {"openai", "doubao"}

\* JSON.stringify of a value: text that parses back to the value.
JSONstringify(v) == [valid |-> TRUE, obj |-> v]

\* Text that is not JSON.
MalformedText == [valid |-> FALSE, obj |-> Undefined]

\* JSON.parse: the value, or a SyntaxError.
JSONparse(t) ==
    IF t.valid THEN [threw |-> FALSE, value |-> t.obj]
    ELSE [threw |-> TRUE, value |-> Undefined]

\* ------------------------------------------------------------ the tools

SOLANA_TOOLS ==
    << "get_sol_balance", "get_token_balances", "get_transaction",
       "get_recent_transactions", "get_token_info", "get_sol_price",
       "get_token_price", "lookup_domain", "get_stake_accounts", "get_nfts" >>

\* The argument mapping of a tool call: whether it is an object at all, and the
\* value under the handler's principal key (address, mint, signature, domain).
Params(isObject, key) == [isObject |-> isObject, key |-> key]

\* The handlers that build a PublicKey from their argument and then ask the RPC
\* node: both steps throw.
PublicKeyHandlers ==
    { "get_sol_balance", "get_token_balances", "get_recent_transactions",
      "get_token_info", "get_stake_accounts" }

\* The handlers whose whole body is wrapped in their own try/catch.
SelfCatchingHandlers ==
    { "get_sol_price", "get_token_price", "lookup_domain", "get_nfts" }

\* What a handler does with the argument it is passed, the network being up or
\* down: it returns a JSON string or raises an Error with a message.
Returned(obj) == [raised |-> FALSE, out |-> JSONstringify(obj)]
Raised(message) == [raised |-> TRUE, out |-> message]

Handler(name, key, rpcIsUp) ==
    IF name \in PublicKeyHandlers THEN
        IF key = Undefined THEN Raised(<<"Invalid public key input">>)
        ELSE IF ~rpcIsUp THEN Raised(<<"Network request failed">>)
        ELSE Returned([key |-> "data", val |-> <<name, key>>])
    ELSE IF name = "get_transaction" THEN
        IF ~rpcIsUp \/ key = Undefined THEN Raised(<<"Network request failed">>)
        ELSE Returned([key |-> "data", val |-> <<name, key>>])
    ELSE \* SelfCatchingHandlers
        IF ~rpcIsUp \/ (name = "lookup_domain" /\ key = Undefined)
        THEN Returned([key |-> "error", val |-> <<"Failed to fetch", name>>])
        ELSE Returned([key |-> "data", val |-> <<name, key>>])

\* The case labels of executeTool's switch.
SwitchCases ==
    { "get_sol_balance", "get_token_balances", "get_transaction",
      "get_recent_transactions", "get_token_info", "get_sol_price",
      "get_token_price", "lookup_domain", "get_stake_accounts", "get_nfts" }

\* The switch without its case for get_sol_price.
DispatchWithoutPrice(name, params, rpcIsUp) ==
    IF name \notin SwitchCases \ {"get_sol_price"}
    THEN Returned([key |-> "error", val |-> <<"Unknown tool: ", name>>])
    ELSE IF ~params.isObject
    THEN Raised(<<"Cannot read properties of undefined">>)
    ELSE Handler(name, params.key, rpcIsUp)

\* The switch with its default clause handing the call to getSolBalance.
DispatchUnknownToHandler(name, params, rpcIsUp) ==
    IF name \notin SwitchCases
    THEN (IF ~params.isObject THEN Raised(<<"Cannot read properties of undefined">>)
          ELSE Handler("get_sol_balance", params.key, rpcIsUp))
    ELSE IF name = "get_sol_price" THEN Handler(name, Undefined, rpcIsUp)
    ELSE IF ~params.isObject
    THEN Raised(<<"Cannot read properties of undefined">>)
    ELSE Handler(name, params.key, rpcIsUp)

\* The body of executeTool's try block: the switch on the name, the reads of
\* params.<key> in the case that is selected, and the handler.
Dispatch(name, params, rpcIsUp) ==
    IF name \notin SwitchCases
    THEN Returned([key |-> "error", val |-> <<"Unknown tool: ", name>>])
    ELSE IF name = "get_sol_price" THEN Handler(name, Undefined, rpcIsUp)
    ELSE IF ~params.isObject
    THEN Raised(<<"Cannot read properties of undefined">>)
    ELSE Handler(name, params.key, rpcIsUp)

\* executeTool with its catch clause removed.
executeToolNoCatch(name, params, rpcIsUp) ==
    LET r == Dispatch(name, params, rpcIsUp)
    IN  IF r.raised THEN [kind |-> "throw", value |-> MalformedText]
        ELSE [kind |-> "return", value |-> r.out]

\* SolanaToolExecutor.executeTool: the promise's outcome.
executeTool(name, params, rpcIsUp) ==
    LET r == Dispatch(name, params, rpcIsUp)
    IN  IF r.raised
        THEN [kind |-> "return",
              value |-> JSONstringify([key |-> "error", val |-> r.out])]
        ELSE [kind |-> "return", value |-> r.out]

\* ------------------------------------------------- the provider's answers

NoArgs == JSONstringify(Params(FALSE, Undefined))

\* A content block (Claude), a part (Gemini) or a tool call (OpenAI, Doubao).
TextBlock(t) ==
    [type |-> "text", text |-> t, id |-> <<>>, name |-> Undefined, args |-> NoArgs]
ToolUse(id, shape) ==
    [type |-> "tool_use", text |-> Undefined, id |-> id, name |-> shape.name,
     args |-> shape.args]

Shape(name, args) == [name |-> name, args |-> args]

\* Tool requests the provider combines freely, in lists of up to MaxCalls.
ToolPool ==
    { Shape("get_sol_balance", JSONstringify(Params(TRUE, "ABC"))),
      Shape("get_sol_price", JSONstringify(Params(TRUE, Undefined))) }

\* A required argument is missing; the name is no declared tool; the argument
\* mapping is missing altogether.
MissingArgument == Shape("get_token_balances", JSONstringify(Params(TRUE, Undefined)))
UnknownTool == Shape("get_weather", JSONstringify(Params(TRUE, "ABC")))
NoArguments == Shape("get_transaction", NoArgs)
\* The argument string of the call is not JSON (OpenAI, Doubao: arguments is a
\* string the code parses).
BadArgumentText == Shape("get_sol_balance", MalformedText)

SomeTool == CHOOSE s \in ToolPool : s.name = "get_sol_balance"
OtherTool == CHOOSE s \in ToolPool : s.name = "get_sol_price"

\* What the stub provider that never gives a final answer asks for, every round.
StubRequests == <<SomeTool, OtherTool>>

ShapeLists(provider) ==
    UNION { [1..n -> ToolPool] : n \in 0..MaxCalls }
    \cup { <<MissingArgument>>, <<UnknownTool>>, <<NoArguments>> }
    \cup IF provider \in SequentialProviders
         THEN { <<SomeTool, BadArgumentText>> } ELSE {}

\* The provider assigns each request of a round its correlation identifier.
Numbered(round, shapes) ==
    [i \in 1..Len(shapes) |-> ToolUse(<<round, i>>, shapes[i])]

AnswerText == "Hi there!"

\* A provider response as the code reads it: response.ok; for an error the body
\* (with a message, without one, or not JSON); for a success whether the field
\* the code indexes first (content, choices, candidates) is there, and then
\* stop_reason, message.content, whether message.tool_calls is there, and the
\* blocks / parts / tool calls.
Response(ok, errBody, hasField, stop, content, hasToolCalls, blocks) ==
    [ok |-> ok, errBody |-> errBody, hasField |-> hasField, stop_reason |-> stop,
     content |-> content, hasToolCalls |-> hasToolCalls, blocks |-> blocks]

ErrorMessage == "invalid api key"

ErrorResponses ==
    { Response(FALSE, b, FALSE, Undefined, Undefined, FALSE, <<>>) :
        b \in {"message", "empty", "notjson"} }

MalformedResponse == Response(TRUE, "none", FALSE, Undefined, Undefined, FALSE, <<>>)

Success(stop, content, hasToolCalls, blocks) ==
    Response(TRUE, "none", TRUE, stop, content, hasToolCalls, blocks)

\* The 2xx responses that carry at least the field the code indexes first.
ToolResponses(provider, round) ==
    LET lists == { Numbered(round, l) : l \in ShapeLists(provider) }
        one   == Numbered(round, <<SomeTool>>)
    IN  CASE provider = "claude" ->
               { Success("tool_use", Undefined, FALSE, b) : b \in lists \ {<<>>} }
               \cup { Success("tool_use", Undefined, FALSE, <<TextBlock(AnswerText)>> \o one) }
          [] provider \in SequentialProviders ->
               { Success("tool_calls", Undefined, TRUE, b) : b \in lists \ {<<>>} }
               \cup { Success("stop", c, TRUE, <<>>) : c \in {AnswerText, Undefined} }
          [] provider = "gemini" ->
               { Success("STOP", Undefined, FALSE, b) : b \in lists \ {<<>>} }
               \cup { Success("STOP", Undefined, FALSE, <<TextBlock(AnswerText)>> \o one) }

FinalResponses(provider, round) ==
    LET one == Numbered(round, <<SomeTool>>)
    IN  CASE provider = "claude" ->
               { Success("end_turn", Undefined, FALSE, <<TextBlock(AnswerText)>>),
                 Success("end_turn", Undefined, FALSE, <<>>),
                 Success("max_tokens", Undefined, FALSE, <<TextBlock(AnswerText)>> \o one) }
          [] provider \in SequentialProviders ->
               { Success("stop", AnswerText, FALSE, <<>>),
                 Success("stop", Undefined, FALSE, <<>>) }
          [] provider = "gemini" ->
               { Success("STOP", Undefined, FALSE, <<TextBlock(AnswerText)>>),
                 Success("STOP", Undefined, FALSE, <<TextBlock("")>>),
                 Success("STOP", Undefined, FALSE, <<>>) }

\* ------------------------------------------------------ reading a response

IsToolUse(b) == b.type = "tool_use"

\* A JavaScript string in a boolean context.
Truthy(t) == t # Undefined /\ t # ""

\* x || ''
OrEmpty(t) == IF Truthy(t) THEN t ELSE ""

\* The condition of the provider's while loop.
LoopCondition(provider, data) ==
    CASE provider = "claude" -> data.stop_reason = "tool_use"
      [] provider \in SequentialProviders -> data.hasToolCalls
      [] provider = "gemini" ->
           data.hasField /\ \E i \in DOMAIN data.blocks : IsToolUse(data.blocks[i])

\* toolUseBlocks / assistantMessage.tool_calls / functionCalls.
ToolRequests(provider, data) == SelectSeq(data.blocks, IsToolUse)

\* blocks.find(wanted)?.text, wanted being given as the indexes it holds at.
FirstText(blocks, wanted) ==
    IF wanted = {} THEN Undefined
    ELSE blocks[CHOOSE i \in wanted : \A j \in wanted : i <= j].text

IsText(b) == b.type = "text"
HasText(b) == b.type = "text" /\ Truthy(b.text)

\* The value the function returns once the loop condition is false.
FinalText(provider, data) ==
    CASE provider = "claude" -> OrEmpty(FirstText(data.blocks,
                            { i \in DOMAIN data.blocks : IsText(data.blocks[i]) }))
      [] provider \in SequentialProviders -> OrEmpty(data.content)
      [] provider = "gemini" ->
           OrEmpty(FirstText(data.blocks,
                            { i \in DOMAIN data.blocks : HasText(data.blocks[i]) }))

\* Where reading a 2xx body dereferences a field that is not there.
ReadThrows(provider, data) ==
    CASE provider = "claude" -> ~data.hasField
      [] provider \in SequentialProviders -> ~data.hasField
      [] provider = "gemini" -> FALSE

NoError == [kind |-> Undefined, message |-> Undefined, at |-> Undefined]
Thrown(kind, message, at) == [kind |-> kind, message |-> message, at |-> at]

DefaultApiError(provider) ==
    CASE provider = "claude" -> "Claude API error"
      [] provider = "openai" -> "OpenAI API error"
      [] provider = "gemini" -> "Gemini API error"
      [] provider = "doubao" -> "Doubao API error"

\* The error thrown for a non-2xx response, the body's message being ignored.
ApiErrorDefaultOnly(provider, r) ==
    Thrown("Error", DefaultApiError(provider), "response.ok")

\* if (!response.ok) { const error = await response.json();
\*                     throw new Error(error.error?.message || '... API error') }
ApiError(provider, r) ==
    IF r.errBody = "notjson"
    THEN Thrown("SyntaxError", "Unexpected token", "response.json")
    ELSE Thrown("Error",
                IF r.errBody = "message" THEN ErrorMessage ELSE DefaultApiError(provider),
                "response.ok")

\* ------------------------------------------------------------ the history

Entry(role, content, blocks, results) ==
    [role |-> role, content |-> content, blocks |-> blocks, results |-> results]

Message(role, content) == [role |-> role, content |-> content]

NotSystem(m) == m.role # "system"

\* A text the code builds by interpolation or concatenation is the tuple of
\* its parts, each part a string.
SOLANA_SYSTEM_PROMPT == <<"You are a helpful AI assistant ...">>
SOLANA_AGENT_PROMPT ==
    SOLANA_SYSTEM_PROMPT \o <<"You have access to the following Solana blockchain tools: ...">>

\* wallet.publicKey: null, or the base58 address, given as its first eight
\* characters, its middle and its last eight characters.
NoKey == <<>>
WalletAddress == <<"9WzDXwBb", "mPdCBoccYHjkKxPFPdwJBKZQTm8", "D9P3CZqJ">>

\* WalletState before and after connect.
DisconnectedWallet ==
    [connected |-> FALSE, publicKey |-> NoKey, balance |-> 0, tokens |-> <<>>]
ConnectedWallet ==
    [connected |-> TRUE, publicKey |-> WalletAddress, balance |-> 15000,
     tokens |-> <<"USDC", "BONK">>]

\* balance.toFixed(4), the balance being held in units of 0.0001 SOL.
toFixed4(b) == <<ToString(b \div 10000), ".", ToString(b % 10000)>>

\* AIProvider.buildWalletContext
buildWalletContext(w) ==
    IF ~w.connected \/ w.publicKey = NoKey THEN <<>>
    ELSE <<"[Wallet Context] - Address: ", w.publicKey[1], "...", w.publicKey[3],
           " - SOL Balance: ">> \o toFixed4(w.balance)
         \o <<" SOL - Tokens: ", ToString(Len(w.tokens)), " SPL tokens">>

\* let systemPrompt = SOLANA_AGENT_PROMPT; if (walletAddress) systemPrompt += ...
SystemPrompt(walletAddress) ==
    SOLANA_AGENT_PROMPT
    \o IF walletAddress # NoKey
       THEN <<"The user's connected wallet address is: ">> \o walletAddress
       ELSE <<>>

\* formattedMessages / contents before the first call.
InitialHistory(provider, messages, walletAddress) ==
    LET kept == SelectSeq(messages, NotSystem)
    IN  CASE provider = "claude" ->
               [i \in DOMAIN kept |-> Entry(kept[i].role, kept[i].content, <<>>, <<>>)]
          [] provider \in SequentialProviders ->
               <<Entry("system", SystemPrompt(walletAddress), <<>>, <<>>)>>
               \o [i \in DOMAIN kept |-> Entry(kept[i].role, kept[i].content, <<>>, <<>>)]
          [] provider = "gemini" ->
               [i \in DOMAIN kept |->
                  Entry(IF kept[i].role = "assistant" THEN "model" ELSE "user",
                        Undefined, <<TextBlock(kept[i].content)>>, <<>>)]

\* The entry that records the assistant's turn of a tool round.
AssistantEntry(provider, data) ==
    CASE provider = "claude" -> Entry("assistant", Undefined, data.blocks, <<>>)
      [] provider \in SequentialProviders ->
           Entry("assistant", data.content, data.blocks, <<>>)
      [] provider = "gemini" -> Entry("model", Undefined, data.blocks, <<>>)

\* The identifier a result is sent back under.
ResultTag(provider, call) == IF provider = "gemini" THEN <<call.name>> ELSE call.id

\* One tool result in the provider's shape: tool_result / role 'tool' carry the
\* string, functionResponse carries JSON.parse of it.
ToolResult(provider, call, text) ==
    IF provider = "gemini"
    THEN [tag |-> ResultTag(provider, call), form |-> "object",
          body |-> JSONstringify(JSONparse(text).value)]
    ELSE [tag |-> ResultTag(provider, call), form |-> "string", body |-> text]

NoResult == [tag |-> <<>>, form |-> "none", body |-> MalformedText]

\* The entry (Claude, Gemini) that carries a round's results.
ResultsEntry(provider, results) == Entry("user", Undefined, <<>>, results)

\* The entry (OpenAI, Doubao) that carries one result.
ToolEntry(result) == Entry("tool", Undefined, <<>>, <<result>>)

\* The two pushes after Promise.all, the assistant's turn being forgotten.
PushRoundResultsOnly(history, assistant, resultsEntry) ==
    history \o <<resultsEntry>>

\* formattedMessages.push(assistant turn); formattedMessages.push(results).
PushRound(history, assistant, resultsEntry) ==
    history \o <<assistant, resultsEntry>>

\* The results stored in the order the tools complete.
CollectInCompletionOrder(results, i, result, nSettled) ==
    [results EXCEPT ![nSettled + 1] = result]

\* Promise.all keeps each mapped promise's value at the index of its request.
Collect(results, i, result, nSettled) ==
    [results EXCEPT ![i] = result]

\* The body of a provider request.
Request(provider, system, history, tools) ==
    [system |-> system, messages |-> history, tools |-> tools]

\* ------------------------------------------------------------ the state

VARIABLES
    currentProvider,      \* AIProvider state
    settings,             \* AIProvider state: apiKeys, useTools
    conversations,        \* AIProvider state
    currentConversation,  \* AIProvider state (NoConversation for null)
    isLoading,            \* AIProvider state
    storage,              \* the value stored under the key 'conversations'
    now,                  \* Date.now()
    sendPc,               \* where the sendMessage call is
    sendError,            \* what sendMessage threw
    send,                 \* the locals of the sendMessage call
    wallet,               \* SolanaProvider state: the WalletState
    rpcUp,                \* whether the tools' network calls succeed
    adapter,              \* what the provider may answer: "free", "alwaysTools", "brief"
    cancelRequested,      \* whether the caller of sendMessage wants the send stopped
    other,                \* a second chatWithTools call, in flight beside the first
    second,               \* the locals of a sendMessage call made while one is in flight
    platform,             \* Platform.OS
    connecting,           \* SolanaProvider state
    authToken,            \* SolanaProvider state (Undefined for null)
    walletStorage,        \* the values stored under 'walletPubkey', 'authToken'
    connects,             \* the connect calls made in this run, each with its position
    disconnecting,        \* where the disconnect call is, and how deauthorizing went
    loadPc,               \* whether loadSavedWallet has run
    fetches,              \* the fetchBalance calls in flight, and the refresh timers
    usage,                \* the locals of the last useCredits call, and what it returned
    uses,                 \* the useCredits calls made in this run
    balance,              \* CreditsProvider state: the CreditBalance
    transactions,         \* CreditsProvider state: the CreditTransaction list
    creditsLoading,       \* CreditsProvider state: isLoading
    creditStorage,        \* the values stored under 'creditBalance', 'creditTransactions'
    purchasePc,           \* where the purchaseCredits call is
    purchase,             \* the locals of the purchaseCredits call, and its outcome
    transfers,            \* the transfers the wallet has been asked to sign and send
    purchases,            \* the purchaseCredits calls made in this run
    pc,                   \* where the provider function is
    systemPrompt,         \* systemPrompt of the provider function
    history,              \* formattedMessages / contents
    sent,                 \* the bodies of the requests fetch was called with
    received,             \* the responses fetch resolved to
    calls,                \* the tool requests of the round being executed
    results,              \* toolResults / functionResponses, by request index
    pending,              \* the indexes of the executeTool promises not settled
    execLog,              \* the executeTool calls made for the current response
    settled,              \* the executeTool promises of the round settled, in that order
    answer,               \* the string the provider function returned
    error,                \* what the provider function threw
    batches,              \* the rounds of tool execution begun by this call
    requests              \* the provider requests issued in this run

appVars == <<currentProvider, settings, conversations, currentConversation,
             isLoading, storage, now>>
sendVars == <<sendPc, sendError, send>>
creditVars == <<balance, transactions, creditsLoading, creditStorage, purchasePc,
                purchase, transfers, purchases>>
solanaVars == <<platform, connecting, authToken, walletStorage, connects,
                disconnecting, loadPc, fetches>>
usageVars == <<usage, uses>>
envVars == <<wallet, rpcUp, adapter, cancelRequested, other, second, solanaVars,
             usageVars, creditVars>>
loopVars == <<pc, systemPrompt, history, sent, received, calls, results, pending, execLog,
              settled, answer, error, batches>>
vars == <<appVars, sendVars, envVars, loopVars, requests>>

NoConversation == [id |-> 0, messages |-> <<>>]
NoSend == [provider |-> Undefined, content |-> Undefined, convo |-> NoConversation,
           userMessage |-> Message(Undefined, Undefined), conversations |-> <<>>,
           apiKey |-> Undefined, messages |-> <<>>, walletAddress |-> NoKey]
NoStorage == [has |-> FALSE, value |-> MalformedText]

RequestLimit == IF adapter = "alwaysTools" THEN MaxProbeRequests ELSE MaxRequests

\* The locals of a provider function that has not been called.
FreshLoop ==
    [pc |-> "idle", systemPrompt |-> <<>>, history |-> <<>>, sent |-> <<>>,
     calls |-> <<>>, results |-> <<>>, pending |-> {}, execLog |-> <<>>,
     settled |-> <<>>, answer |-> Undefined, error |-> NoError, batches |-> 0,
     requests |-> 0]

NoOther ==
    [provider |-> Undefined, messages |-> <<>>, walletAddress |-> NoKey,
     loop |-> FreshLoop, received |-> <<>>]

NoSecond ==
    [pc |-> "idle", content |-> Undefined, convo |-> NoConversation,
     userMessage |-> Message(Undefined, Undefined), conversations |-> <<>>,
     error |-> NoError]

DEFAULT_BALANCE == [total |-> 0, used |-> 0, remaining |-> 0]

NoPackage == [id |-> Undefined, credits |-> 0, price |-> Undefined, token |-> Undefined]

NoPurchase ==
    [pkg |-> NoPackage, balance |-> DEFAULT_BALANCE, transactions |-> <<>>,
     signature |-> <<>>, error |-> Undefined]

NoCreditStorage == [has |-> FALSE, balance |-> DEFAULT_BALANCE, transactions |-> <<>>]

NoUsage == [provider |-> Undefined, model |-> Undefined, cost |-> 0, returned |-> Undefined]

NoWalletStorage == [walletPubkey |-> NoKey, authToken |-> Undefined]

\* The token the wallet app gives with an authorization.
AuthToken == "auth-token"

NoDisconnect == [pc |-> "idle", deauthorized |-> Undefined]

\* The SolanaProvider state that goes with the wallet: nothing stored and no
\* token before connect; the key and the token stored after it.
SolanaStart ==
    /\ platform = "android"
    /\ connecting = FALSE
    /\ authToken = IF wallet.connected THEN AuthToken ELSE Undefined
    /\ walletStorage = IF wallet.connected
                       THEN [walletPubkey |-> wallet.publicKey, authToken |-> AuthToken]
                       ELSE NoWalletStorage
    /\ connects = <<>>
    /\ disconnecting = NoDisconnect
    /\ loadPc = "done"
    /\ fetches = {}

\* The state after construction, but for what the provider will answer and
\* whether a wallet is connected.
Start ==
    /\ currentProvider \in Providers
    /\ \E key \in {Undefined, "sk-key"}, useTools \in {"true", "false", Undefined} :
         settings = [apiKeys |-> [p \in Providers |->
                                    IF p = currentProvider THEN key ELSE Undefined],
                     useTools |-> useTools]
    /\ conversations = <<>>
    /\ currentConversation = NoConversation
    /\ isLoading = FALSE
    /\ storage = NoStorage
    /\ now = 0
    /\ sendPc = "idle"
    /\ sendError = NoError
    /\ send = NoSend
    /\ rpcUp \in BOOLEAN
    /\ cancelRequested = FALSE
    /\ other = NoOther
    /\ second = NoSecond
    /\ usage = NoUsage
    /\ uses = 0
    /\ balance = DEFAULT_BALANCE
    /\ transactions = <<>>
    /\ creditsLoading = FALSE
    /\ creditStorage = NoCreditStorage
    /\ purchasePc = "idle"
    /\ purchase = NoPurchase
    /\ transfers = <<>>
    /\ purchases = 0
    /\ pc = "idle"
    /\ systemPrompt = <<>>
    /\ history = <<>>
    /\ sent = <<>>
    /\ received = <<>>
    /\ calls = <<>>
    /\ results = <<>>
    /\ pending = {}
    /\ execLog = <<>>
    /\ settled = <<>>
    /\ answer = Undefined
    /\ error = NoError
    /\ batches = 0
    /\ requests = 0

\* The provider that may answer anything, and the one that never gives a final
\* answer, are met with the flag on and a wallet connected; the provider of
\* few answers is met with the flag on or absent, with and without a wallet.
\* With the flag off the basic service is used, whose answers do not depend on
\* the adapter.
Init ==
    /\ Start
    /\ adapter \in CASE settings.useTools = "true" -> {"free", "alwaysTools", "brief"}
                      [] settings.useTools = "false" -> {"free"}
                      [] OTHER -> {"brief"}
    /\ wallet \in IF adapter = "brief" \/ settings.useTools = "false"
                   THEN {DisconnectedWallet, ConnectedWallet}
                   ELSE {ConnectedWallet}
    /\ SolanaStart

\* ------------------------------------------------ the provider functions

\* The loop's variables as one record, for the operators that compute a step.
Loop ==
    [pc |-> pc, systemPrompt |-> systemPrompt, history |-> history,
     sent |-> sent, calls |-> calls,
     results |-> results, pending |-> pending, execLog |-> execLog,
     settled |-> settled, answer |-> answer, error |-> error,
     batches |-> batches, requests |-> requests]

\* The request's system / systemInstruction field (OpenAI and Doubao have
\* none: their system prompt is the first message).
SystemOf(provider, prompt) ==
    IF provider \in SequentialProviders THEN <<>> ELSE prompt

\* fetch(baseUrl, {... body: JSON.stringify({... messages ...})}) and the await
\* that follows it.
Fetch(provider, l) ==
    [l EXCEPT !.sent = Append(l.sent,
                              Request(provider, SystemOf(provider, l.systemPrompt),
                                      l.history, SOLANA_TOOLS)),
              !.requests = l.requests + 1,
              !.pc = "awaiting"]

Throw(l, e) == [l EXCEPT !.pc = "failed", !.error = e]

LogEntry(round, i, call) ==
    [round |-> round, index |-> i, name |-> call.name, params |-> call.args.obj]

\* for (const toolCall of tool_calls): the i-th iteration up to its await.
StartSequential(l, i) ==
    IF JSONparse(l.calls[i].args).threw
    THEN Throw([l EXCEPT !.pending = {}],
               Thrown("SyntaxError", "Unexpected token", "JSON.parse(arguments)"))
    ELSE [l EXCEPT !.pending = {i},
                   !.execLog = Append(l.execLog, LogEntry(l.batches, i, l.calls[i])),
                   !.pc = "executing"]

\* formattedMessages declared at module level: a call goes on from the list
\* that the calls before it, or beside it, have filled.
StartLoopSharingHistory(provider, messages, walletAddress, l) ==
    Fetch(provider,
          [l EXCEPT !.history = l.history
                                \o InitialHistory(provider, messages, walletAddress),
                    !.systemPrompt = SystemPrompt(walletAddress),
                    !.sent = <<>>, !.calls = <<>>, !.results = <<>>,
                    !.pending = {}, !.execLog = <<>>, !.settled = <<>>,
                    !.answer = Undefined, !.error = NoError, !.batches = 0])

\* The first call: the conversation in the provider's shape, and the request.
StartLoop(provider, messages, walletAddress, l) ==
    Fetch(provider,
          [l EXCEPT !.history = InitialHistory(provider, messages, walletAddress),
                    !.systemPrompt = SystemPrompt(walletAddress),
                    !.sent = <<>>, !.calls = <<>>, !.results = <<>>,
                    !.pending = {}, !.execLog = <<>>, !.settled = <<>>,
                    !.answer = Undefined, !.error = NoError, !.batches = 0])

\* The body of the while loop up to its first await: the requests are taken
\* from the response and executeTool is called, for all of them at once
\* (Promise.all over map) or for the first of them (for ... await).
BeginBatch(provider, data, l) ==
    LET reqs  == ToolRequests(provider, data)
        n     == Len(reqs)
        round == l.batches + 1
        l1    == [l EXCEPT !.calls = reqs, !.batches = round, !.settled = <<>>,
                           !.results = [i \in 1..n |-> NoResult]]
    IN  IF provider \in SequentialProviders
        THEN LET l2 == [l1 EXCEPT !.history =
                                     Append(l.history, AssistantEntry(provider, data))]
             IN  IF n = 0 THEN Fetch(provider, l2) ELSE StartSequential(l2, 1)
        ELSE IF n = 0
             THEN Fetch(provider,
                        [l1 EXCEPT !.history =
                           PushRound(l.history, AssistantEntry(provider, data),
                                     ResultsEntry(provider, <<>>))])
             ELSE [l1 EXCEPT !.pc = "executing", !.pending = 1..n,
                             !.execLog = l.execLog \o
                                [i \in 1..n |-> LogEntry(round, i, reqs[i])]]

\* A non-2xx response answered by sending the same request again.
AfterResponseRetrying(provider, r, l) ==
    IF ~r.ok THEN Fetch(provider, l)
    ELSE IF ReadThrows(provider, r)
    THEN Throw(l, Thrown("TypeError", "Cannot read properties of undefined",
                         "response body"))
    ELSE IF LoopCondition(provider, r) THEN BeginBatch(provider, r, l)
    ELSE [l EXCEPT !.pc = "done", !.answer = FinalText(provider, r)]

\* What the provider function does with the response its fetch resolved to.
AfterResponse(provider, r, l) ==
    IF ~r.ok THEN Throw(l, ApiError(provider, r))
    ELSE IF ReadThrows(provider, r)
    THEN Throw(l, Thrown("TypeError", "Cannot read properties of undefined",
                         "response body"))
    ELSE IF LoopCondition(provider, r) THEN BeginBatch(provider, r, l)
    ELSE [l EXCEPT !.pc = "done", !.answer = FinalText(provider, r)]

\* The follow-up request issued as soon as one tool of the round has settled
\* (Promise.race for Promise.all).
AfterToolRace(provider, data, i, out, l0) ==
    LET l    == [l0 EXCEPT !.pending = {i},
                           !.settled = Append(l0.settled,
                    [index |-> i, name |-> l0.calls[i].name,
                     params |-> l0.calls[i].args.obj, outcome |-> out])]
        call == l.calls[i]
        n    == Len(l.calls)
        res  == ToolResult(provider, call, out.value)
    IN  IF provider \in SequentialProviders
        THEN LET l1 == [l EXCEPT !.history = Append(l.history, ToolEntry(res)),
                                 !.pending = {}]
             IN  IF i < n THEN StartSequential(l1, i + 1) ELSE Fetch(provider, l1)
        ELSE LET got == Collect(l.results, i, res, 0)
             IN  Fetch(provider,
                       [l EXCEPT !.results = got, !.pending = {},
                                 !.history = PushRound(l.history,
                                                       AssistantEntry(provider, data),
                                                       ResultsEntry(provider, got))])

\* What the provider function does when the executeTool promise of request i
\* settles with outcome out, data being the response whose round this is.
AfterTool(provider, data, i, out, l0) ==
    LET l    == [l0 EXCEPT !.settled = Append(l0.settled,
                    [index |-> i, name |-> l0.calls[i].name,
                     params |-> l0.calls[i].args.obj, outcome |-> out])]
        call == l.calls[i]
        n    == Len(l.calls)
        left == l.pending \ {i}
    IN  IF out.kind = "throw"
        THEN Throw([l EXCEPT !.pending = left],
                   Thrown("Error", "tool handler error", "executeTool"))
        ELSE IF provider = "gemini" /\ JSONparse(out.value).threw
        THEN Throw([l EXCEPT !.pending = left],
                   Thrown("SyntaxError", "Unexpected token", "JSON.parse(result)"))
        ELSE LET res == ToolResult(provider, call, out.value)
             IN  IF provider \in SequentialProviders
                 THEN LET l1 == [l EXCEPT !.history = Append(l.history, ToolEntry(res)),
                                          !.pending = {}]
                      IN  IF i < n THEN StartSequential(l1, i + 1)
                          ELSE Fetch(provider, l1)
                 ELSE LET got == Collect(l.results, i, res, n - Cardinality(l.pending))
                          l1  == [l EXCEPT !.results = got, !.pending = left]
                      IN  IF left # {} THEN l1
                          ELSE Fetch(provider,
                                     [l1 EXCEPT !.history =
                                        PushRound(l.history,
                                                  AssistantEntry(provider, data),
                                                  ResultsEntry(provider, got))])

\* The loop's variables take the values of l.
Becomes(l) ==
    /\ pc' = l.pc
    /\ systemPrompt' = l.systemPrompt
    /\ history' = l.history
    /\ sent' = l.sent
    /\ calls' = l.calls
    /\ results' = l.results
    /\ pending' = l.pending
    /\ execLog' = l.execLog
    /\ settled' = l.settled
    /\ answer' = l.answer
    /\ error' = l.error
    /\ batches' = l.batches
    /\ requests' = l.requests

\* A final response that carries the answer text.
HasAnswer(provider, r) ==
    /\ ~LoopCondition(provider, r)
    /\ FinalText(provider, r) = AnswerText
    /\ ToolRequests(provider, r) = <<>>

\* What the provider may answer to the request in flight.
AnswersTo(provider, round, issued) ==
        IF adapter = "brief"
        THEN { r \in ErrorResponses : r.errBody = "message" }
             \cup { r \in FinalResponses(provider, round) : HasAnswer(provider, r) }
             \cup IF issued < RequestLimit
                  THEN { r \in ToolResponses(provider, round) :
                           r.blocks = Numbered(round, StubRequests) }
                  ELSE {}
        ELSE IF adapter = "alwaysTools"
        THEN IF issued < RequestLimit
             THEN { r \in ToolResponses(provider, round) :
                      r.blocks = Numbered(round, StubRequests) }
             ELSE {}
        ELSE ErrorResponses \cup {MalformedResponse}
             \cup FinalResponses(provider, round)
             \cup IF issued < RequestLimit THEN ToolResponses(provider, round)
                  ELSE {}

Answers(provider) == AnswersTo(provider, batches + 1, requests)

Last(q) == q[Len(q)]

\* The fetch of a provider function resolves.
ProviderResponds ==
    /\ pc = "awaiting"
    /\ \E r \in Answers(send.provider) :
         /\ received' = Append(received, r)
         /\ Becomes(AfterResponse(send.provider, r, Loop))
    /\ UNCHANGED <<appVars, sendVars, envVars>>

\* One executeTool promise settles.
ToolSettles ==
    /\ pc = "executing"
    /\ \E i \in pending :
         LET out == executeTool(calls[i].name, calls[i].args.obj, rpcUp)
         IN  Becomes(AfterTool(send.provider, Last(received), i, out, Loop))
    /\ UNCHANGED <<appVars, sendVars, envVars, received>>

\* ----------------------------------------------- the basic chat services

IsSystem(m) == m.role = "system"

\* The messages of a basic service's request.
BasicHistory(provider, messages) ==
    IF provider \in SequentialProviders
    THEN (IF SelectSeq(messages, IsSystem) = <<>>
          THEN <<Entry("system", SOLANA_SYSTEM_PROMPT, <<>>, <<>>)>> ELSE <<>>)
         \o [i \in DOMAIN messages |->
               Entry(messages[i].role, messages[i].content, <<>>, <<>>)]
    ELSE InitialHistory(provider, messages, NoKey)

\* messages.find(m => m.role === 'system')?.content || SOLANA_SYSTEM_PROMPT
BasicSystem(provider, messages) ==
    IF provider \in SequentialProviders THEN <<>>
    ELSE LET found == SelectSeq(messages, IsSystem)
         IN  IF found = <<>> \/ found[1].content = <<>> THEN SOLANA_SYSTEM_PROMPT
             ELSE found[1].content

\* service.chat up to its await: one request, without tool declarations.
StartBasic(provider, messages, l) ==
    [l EXCEPT !.history = BasicHistory(provider, messages),
              !.systemPrompt = BasicSystem(provider, messages),
              !.sent = <<Request(provider, BasicSystem(provider, messages),
                                 BasicHistory(provider, messages), <<>>)>>,
              !.calls = <<>>, !.results = <<>>, !.pending = {}, !.execLog = <<>>,
              !.settled = <<>>, !.answer = Undefined, !.error = NoError, !.batches = 0,
              !.requests = l.requests + 1, !.pc = "awaitingBasic"]

\* data.content[0].text / data.choices[0].message.content /
\* data.candidates[0].content.parts[0].text
AfterBasicResponse(provider, r, l) ==
    IF ~r.ok THEN Throw(l, ApiError(provider, r))
    ELSE IF ~r.hasField \/ (provider \notin SequentialProviders /\ r.blocks = <<>>)
    THEN Throw(l, Thrown("TypeError", "Cannot read properties of undefined",
                         "response body"))
    ELSE [l EXCEPT !.pc = "done",
                   !.answer = IF provider \in SequentialProviders THEN r.content
                              ELSE r.blocks[1].text]

\* The fetch of a basic service resolves.
BasicResponds ==
    /\ pc = "awaitingBasic"
    /\ \E r \in ErrorResponses \cup {MalformedResponse}
                \cup FinalResponses(send.provider, 1) :
         /\ received' = Append(received, r)
         /\ Becomes(AfterBasicResponse(send.provider, r, Loop))
    /\ UNCHANGED <<appVars, sendVars, envVars>>

\* ------------------------------------------------------------ sendMessage

UserContent == "Hello"

\* if (settings.useTools) : an absent flag read as off.
UsesToolsIfSet(s) == s.useTools = "true"

\* settings.useTools !== false
UsesTools(s) == s.useTools # "false"

\* setIsLoading(true) moved above the API key check.
SendMessageLoadingFirst ==
    /\ sendPc # "running"
    /\ LET apiKey == settings.apiKeys[currentProvider]
       IN  IF ~Truthy(apiKey)
           THEN /\ sendPc' = "threw"
                /\ sendError' = Thrown("Error", "Please add your API key in settings",
                                       "sendMessage")
                /\ isLoading' = TRUE
                /\ UNCHANGED <<currentProvider, settings, conversations,
                               currentConversation, storage, now, send, envVars,
                               loopVars, requests>>
           ELSE /\ requests < RequestLimit
                /\ LET convo == IF currentConversation = NoConversation
                                THEN [id |-> now + 1, messages |-> <<>>]
                                ELSE currentConversation
                       userMessage == Message("user", UserContent)
                       systemMessage == Message("system", SOLANA_SYSTEM_PROMPT
                                                          \o buildWalletContext(wallet))
                       messagesForAPI == <<systemMessage>> \o convo.messages
                                         \o <<userMessage>>
                   IN  /\ send' = [provider |-> currentProvider,
                                   content |-> UserContent, convo |-> convo,
                                   userMessage |-> userMessage,
                                   conversations |-> conversations,
                                   apiKey |-> apiKey,
                                   messages |-> messagesForAPI,
                                   walletAddress |-> wallet.publicKey]
                       /\ Becomes(IF UsesTools(settings)
                                  THEN StartLoop(currentProvider, messagesForAPI,
                                                 wallet.publicKey, Loop)
                                  ELSE StartBasic(currentProvider, messagesForAPI, Loop))
                /\ isLoading' = TRUE
                /\ now' = now + 1
                /\ sendPc' = "running"
                /\ sendError' = NoError
                /\ received' = <<>>
                /\ UNCHANGED <<currentProvider, settings, conversations,
                               currentConversation, storage, envVars>>

\* sendMessage up to its first await: the API key check, setIsLoading(true),
\* the conversation and the messages for the API, and the call of
\* chatWithTools or of the basic service, which runs up to its fetch.
SendMessage ==
    /\ sendPc # "running"
    /\ LET apiKey == settings.apiKeys[currentProvider]
       IN  IF ~Truthy(apiKey)
           THEN /\ sendPc' = "threw"
                /\ sendError' = Thrown("Error", "Please add your API key in settings",
                                       "sendMessage")
                /\ UNCHANGED <<appVars, send, envVars, loopVars, requests>>
           ELSE /\ requests < RequestLimit
                /\ LET convo == IF currentConversation = NoConversation
                                THEN [id |-> now + 1, messages |-> <<>>]
                                ELSE currentConversation
                       userMessage == Message("user", UserContent)
                       systemMessage == Message("system", SOLANA_SYSTEM_PROMPT
                                                          \o buildWalletContext(wallet))
                       messagesForAPI == <<systemMessage>> \o convo.messages
                                         \o <<userMessage>>
                   IN  /\ send' = [provider |-> currentProvider,
                                   content |-> UserContent, convo |-> convo,
                                   userMessage |-> userMessage,
                                   conversations |-> conversations,
                                   apiKey |-> apiKey,
                                   messages |-> messagesForAPI,
                                   walletAddress |-> wallet.publicKey]
                       /\ Becomes(IF UsesTools(settings)
                                  THEN StartLoop(currentProvider, messagesForAPI,
                                                 wallet.publicKey, Loop)
                                  ELSE StartBasic(currentProvider, messagesForAPI, Loop))
                /\ isLoading' = TRUE
                /\ now' = now + 1
                /\ sendPc' = "running"
                /\ sendError' = NoError
                /\ received' = <<>>
                /\ UNCHANGED <<currentProvider, settings, conversations,
                               currentConversation, storage, envVars>>

IndexOf(convos, id) ==
    IF \E i \in DOMAIN convos : convos[i].id = id
    THEN CHOOSE i \in DOMAIN convos :
           convos[i].id = id /\ \A j \in 1..(i - 1) : convos[j].id # id
    ELSE 0

\* The conversation rebuilt from the new exchange alone.
UpdatedConvoForgetting(convo, userMessage, response) ==
    [convo EXCEPT !.messages = <<userMessage, Message("assistant", response)>>]

\* The conversation after a send: the user's message and the reply appended.
UpdatedConvo(convo, userMessage, response) ==
    [convo EXCEPT !.messages = @ \o <<userMessage, Message("assistant", response)>>]

\* The conversations list after a send.
UpdatedConvos(convos, updated) ==
    IF IndexOf(convos, updated.id) > 0
    THEN [convos EXCEPT ![IndexOf(convos, updated.id)] = updated]
    ELSE <<updated>> \o convos

\* sendMessage after the await of the provider call, the call having returned:
\* the assistant message, setCurrentConversation, setConversations,
\* saveConversations, and the finally clause.
SendResolves ==
    /\ sendPc = "running"
    /\ pc = "done"
    /\ LET updatedConvo == UpdatedConvo(send.convo, send.userMessage, answer)
           updatedConvos == UpdatedConvos(send.conversations, updatedConvo)
       IN  /\ currentConversation' = updatedConvo
           /\ conversations' = updatedConvos
           /\ storage' = [has |-> TRUE, value |-> JSONstringify(updatedConvos)]
    /\ isLoading' = FALSE
    /\ sendPc' = "resolved"
    /\ UNCHANGED <<currentProvider, settings, now, sendError, send, envVars,
                   loopVars, requests>>

\* The catch clause keeps the part of the exchange it has.
SendRejectsKeepingUserMessage ==
    /\ sendPc = "running"
    /\ pc = "failed"
    /\ currentConversation' =
         [send.convo EXCEPT !.messages = @ \o <<send.userMessage>>]
    /\ isLoading' = FALSE
    /\ sendPc' = "threw"
    /\ sendError' = error
    /\ UNCHANGED <<currentProvider, settings, conversations, storage, now, send,
                   envVars, loopVars, requests>>

\* sendMessage after the await of the provider call, the call having thrown:
\* the catch clause rethrows, the finally clause resets isLoading.
SendRejects ==
    /\ sendPc = "running"
    /\ pc = "failed"
    /\ isLoading' = FALSE
    /\ sendPc' = "threw"
    /\ sendError' = error
    /\ UNCHANGED <<currentProvider, settings, conversations, currentConversation,
                   storage, now, send, envVars, loopVars, requests>>

Next ==
    \/ SendMessage
    \/ ProviderResponds
    \/ ToolSettles
    \/ BasicResponds
    \/ SendResolves
    \/ SendRejects

Spec == Init /\ [][Next]_vars

\* ------------------------------------------ the user's other operations

\* createNewConversation: a conversation without messages, its id the clock's
\* reading; the clock has moved on since the last reading.
createNewConversation ==
    /\ now < MaxClock
    /\ currentConversation' = [id |-> now + 1, messages |-> <<>>]
    /\ now' = now + 1
    /\ UNCHANGED <<currentProvider, settings, conversations, isLoading, storage,
                   sendVars, envVars, loopVars, requests>>

\* selectConversation(id); the conversations of a run all have the provider
\* the run was started with, so setCurrentProvider changes nothing.
selectConversation(id) ==
    /\ IndexOf(conversations, id) > 0
    /\ currentConversation' = conversations[IndexOf(conversations, id)]
    /\ UNCHANGED <<currentProvider, settings, conversations, isLoading, storage,
                   now, sendVars, envVars, loopVars, requests>>

IdIsNot(id, c) == c.id # id

\* conversations.filter(c => c.id !== id)
Without(convos, id) ==
    LET keep == { i \in DOMAIN convos : IdIsNot(id, convos[i]) }
        nth[k \in 0..Len(convos)] ==
            IF k = 0 THEN 0
            ELSE CHOOSE i \in keep : i > nth[k - 1] /\ \A j \in keep : j > nth[k - 1] => i <= j
    IN  [k \in 1..Cardinality(keep) |-> convos[nth[k]]]

\* deleteConversation(id)
deleteConversation(id) ==
    /\ conversations' = Without(conversations, id)
    /\ storage' = [has |-> TRUE, value |-> JSONstringify(Without(conversations, id))]
    /\ currentConversation' = IF currentConversation.id = id THEN NoConversation
                              ELSE currentConversation
    /\ UNCHANGED <<currentProvider, settings, isLoading, now, sendVars, envVars,
                   loopVars, requests>>

\* The ids the user can pick on screen.
KnownIds ==
    { conversations[i].id : i \in DOMAIN conversations }
    \cup (IF currentConversation = NoConversation THEN {} ELSE {currentConversation.id})

\* The user picks a conversation of the drawer, or deletes one.
SelectsConversation == \E id \in KnownIds : selectConversation(id)
DeletesConversation == \E id \in KnownIds : deleteConversation(id)

\* Sends against the provider of few answers, on either path.
InitApp ==
    /\ Init
    /\ adapter = "brief" \/ settings.useTools = "false"

NextApp ==
    \/ SendMessage
    \/ ProviderResponds
    \/ ToolSettles
    \/ BasicResponds
    \/ SendResolves
    \/ SendRejects
    \/ createNewConversation
    \/ SelectsConversation
    \/ DeletesConversation

SpecApp == InitApp /\ [][NextApp]_vars

\* --------------------------------------------------- fetches and timers

\* A fetchBalance call in flight for the key it was given, at its first await
\* ("balance") or its second ("tokens"), and before those the sendSol call
\* that awaits the wallet app ("signing") and the timer that sendSol sets
\* ("timer"), each holding the key of the refreshBalance it closed over. call
\* is the index of the connect call that awaits the fetch, or 0.
BalanceFetch(key, stage, call) == [key |-> key, stage |-> stage, call |-> call]

\* setTimeout(() => refreshBalance(), 2000)
RefreshTimer(key) == BalanceFetch(key, "timer", 0)

\* ------------------------------------------------------------ credits

TREASURY_WALLET == "9WzDXwBbmPdCBoccYHjkKxPFPdwJBKZQTm8D9P3CZqJV"

Package(id, credits, price, token) ==
    [id |-> id, credits |-> credits, price |-> price, token |-> token]

\* Prices are the amounts of the token as the source writes them.
CREDIT_PACKAGES ==
    << Package("starter-sol", 100, "0.01", "SOL"),
       Package("basic-sol", 500, "0.04", "SOL"),
       Package("pro-sol", 1500, "0.10", "SOL"),
       Package("unlimited-sol", 5000, "0.25", "SOL"),
       Package("starter-purp", 100, "100", "PURP"),
       Package("basic-purp", 500, "400", "PURP"),
       Package("pro-purp", 1500, "1000", "PURP"),
       Package("unlimited-purp", 5000, "2500", "PURP") >>

\* The ids a caller may pass: those of the packages, and one of no package.
PackageIds == { CREDIT_PACKAGES[i].id : i \in DOMAIN CREDIT_PACKAGES } \cup {"no-such-package"}

\* CREDIT_PACKAGES.find(p => p.id === packageId)
FindPackage(packageId) ==
    IF \E i \in DOMAIN CREDIT_PACKAGES : CREDIT_PACKAGES[i].id = packageId
    THEN CREDIT_PACKAGES[CHOOSE i \in DOMAIN CREDIT_PACKAGES :
                           /\ CREDIT_PACKAGES[i].id = packageId
                           /\ \A j \in 1..(i - 1) : CREDIT_PACKAGES[j].id # packageId]
    ELSE NoPackage

\* The CreditTransaction of a purchase.
PurchaseRecord(pkg, signature) ==
    [type |-> "purchase", amount |-> pkg.price, credits |-> pkg.credits,
     token |-> pkg.token, signature |-> signature]

\* newBalance
Credited(b, pkg) ==
    [total |-> b.total + pkg.credits, used |-> b.used,
     remaining |-> b.remaining + pkg.credits]

\* The part of purchaseCredits after the payment step: the transaction and the
\* new balance, computed from the balance and the list the call captured, are
\* set and saved; the signature is returned; isLoading is reset.
Grant(pkg, signature, capturedBalance, capturedTransactions) ==
    LET newBalance      == Credited(capturedBalance, pkg)
        newTransactions == <<PurchaseRecord(pkg, signature)>> \o capturedTransactions
    IN  /\ balance' = newBalance
        /\ transactions' = newTransactions
        /\ creditStorage' = [has |-> TRUE, balance |-> newBalance,
                             transactions |-> newTransactions]
        /\ creditsLoading' = FALSE
        /\ purchasePc' = "resolved"

\* purchaseCredits(packageId) up to its first await. For a SOL package that is
\* the await of sendSol, which has asked the wallet for the transfer; for a
\* PURP package no payment is awaited, and the call runs to its end.
purchaseCredits(packageId) ==
    /\ purchasePc # "awaitingSol"
    /\ purchases < MaxPurchases
    /\ purchases' = purchases + 1
    /\ LET pkg == FindPackage(packageId)
       IN  IF pkg = NoPackage
           THEN /\ purchasePc' = "threw"
                /\ purchase' = [NoPurchase EXCEPT !.error = "Invalid package"]
                /\ UNCHANGED <<balance, transactions, creditsLoading, creditStorage,
                               transfers>>
           ELSE IF ~wallet.connected \/ wallet.publicKey = NoKey
           THEN /\ purchasePc' = "threw"
                /\ purchase' = [NoPurchase EXCEPT
                                  !.pkg = pkg,
                                  !.error = "Please connect your wallet first"]
                /\ UNCHANGED <<balance, transactions, creditsLoading, creditStorage,
                               transfers>>
           ELSE IF pkg.token = "SOL"
           THEN /\ creditsLoading' = TRUE
                /\ transfers' = Append(transfers, [from |-> wallet.publicKey,
                                                   to |-> TREASURY_WALLET,
                                                   amount |-> pkg.price])
                /\ purchase' = [NoPurchase EXCEPT !.pkg = pkg, !.balance = balance,
                                                  !.transactions = transactions]
                /\ purchasePc' = "awaitingSol"
                /\ UNCHANGED <<balance, transactions, creditStorage>>
           ELSE LET signature == <<"purp_", ToString(purchases + 1)>>
                IN  /\ purchase' = [NoPurchase EXCEPT !.pkg = pkg, !.balance = balance,
                                                      !.transactions = transactions,
                                                      !.signature = signature]
                    /\ Grant(pkg, signature, balance, transactions)
                    /\ UNCHANGED transfers
    /\ UNCHANGED <<appVars, sendVars, wallet, rpcUp, adapter, cancelRequested, other,
                   second, solanaVars, usageVars, loopVars, requests>>

\* The wallet has signed and sent the transfer: sendSol returns the signature
\* and purchaseCredits goes on to its end.
SolTransferReturns ==
    /\ purchasePc = "awaitingSol"
    /\ LET signature == <<"sol_", ToString(Len(transfers))>>
       IN  /\ purchase' = [purchase EXCEPT !.signature = signature]
           /\ Grant(purchase.pkg, signature, purchase.balance, purchase.transactions)
    /\ fetches' = fetches \cup {RefreshTimer(Last(transfers).from)}
    /\ UNCHANGED <<appVars, sendVars, wallet, rpcUp, adapter, cancelRequested, other,
                   second, platform, connecting, authToken, walletStorage, connects,
                   disconnecting, loadPc, usageVars, transfers, purchases, loopVars,
                   requests>>

\* The failure of the transfer taken for a payment.
SolTransferFailsButGrants ==
    /\ purchasePc = "awaitingSol"
    /\ purchase' = [purchase EXCEPT !.error = "User declined"]
    /\ Grant(purchase.pkg, <<>>, purchase.balance, purchase.transactions)
    /\ UNCHANGED <<appVars, sendVars, wallet, rpcUp, adapter, cancelRequested, other,
                   second, solanaVars, usageVars, transfers, purchases, loopVars,
                   requests>>

\* The transfer fails (the user declines, the wallet or the network fails):
\* sendSol throws, the catch clause rethrows, the finally clause resets
\* isLoading.
SolTransferFails ==
    /\ purchasePc = "awaitingSol"
    /\ purchase' = [purchase EXCEPT !.error = "User declined"]
    /\ creditsLoading' = FALSE
    /\ purchasePc' = "threw"
    /\ UNCHANGED <<appVars, sendVars, wallet, rpcUp, adapter, cancelRequested, other,
                   second, solanaVars, usageVars, balance, transactions, creditStorage, transfers, purchases,
                   loopVars, requests>>

PurchasesCredits == \E packageId \in PackageIds : purchaseCredits(packageId)

\* The credits screen alone: no chat is going on.
InitCredits ==
    /\ Init
    /\ currentProvider = "claude"
    /\ settings.useTools = "false"
    /\ ~Truthy(settings.apiKeys[currentProvider])
    /\ rpcUp

NextCredits ==
    \/ PurchasesCredits
    \/ SolTransferReturns
    \/ SolTransferFails

SpecCredits == InitCredits /\ [][NextCredits]_vars

\* ------------------------------------------------------ using credits

\* CREDIT_COSTS, as the (provider, model, cost) triples of the table.
CREDIT_COSTS ==
    { <<"claude", "claude-sonnet-4-20250514", 2>>,
      <<"claude", "claude-3-5-haiku-20241022", 1>>,
      <<"openai", "gpt-4o", 3>>,
      <<"openai", "gpt-4o-mini", 1>>,
      <<"gemini", "gemini-1.5-pro", 2>>,
      <<"gemini", "gemini-1.5-flash", 1>>,
      <<"doubao", "doubao-1.5-pro", 2>>,
      <<"doubao", "doubao-1.5-lite", 1>> }

\* providerCosts[model] || 0, and 0 for a provider the table does not hold.
getCreditCostOrZero(provider, model) ==
    IF \E e \in CREDIT_COSTS : e[1] = provider /\ e[2] = model
    THEN (CHOOSE e \in CREDIT_COSTS : e[1] = provider /\ e[2] = model)[3]
    ELSE 0

\* getCreditCost: the table's value, or 1 for a provider or a model that the
\* table does not hold.
getCreditCost(provider, model) ==
    IF \E e \in CREDIT_COSTS : e[1] = provider /\ e[2] = model
    THEN (CHOOSE e \in CREDIT_COSTS : e[1] = provider /\ e[2] = model)[3]
    ELSE 1

\* hasEnoughCredits, read from the state as it stands.
hasEnoughCredits(provider, model) ==
    balance.remaining >= getCreditCost(provider, model)

\* The provider/model pairs a caller passes: pairs of the table, a model of a
\* provider that the table does not price, and a provider it does not hold.
UsagePairs ==
    { <<"openai", "gpt-4o">>, <<"claude", "claude-sonnet-4-20250514">>,
      <<"claude", "claude-opus-4-20250514">>, <<"mistral", "mistral-large">> }

\* The CreditTransaction of a usage.
UsageRecord(provider, model, cost) ==
    [type |-> "usage", amount |-> "0", credits |-> 0 - cost, provider |-> provider,
     model |-> model]

\* The new balance with the requests' cost taken from remaining alone.
DebitedRemainingOnly(b, cost) ==
    [total |-> b.total, used |-> b.used, remaining |-> b.remaining - cost]

\* newBalance of useCredits
Debited(b, cost) ==
    [total |-> b.total, used |-> b.used + cost, remaining |-> b.remaining - cost]

\* useCredits(provider, model): refused when the balance is short; otherwise
\* the new balance and the usage transaction are set and saved.
useCredits(provider, model) ==
    /\ uses < MaxUses
    /\ uses' = uses + 1
    /\ LET cost == getCreditCost(provider, model)
       IN  IF balance.remaining < cost
           THEN /\ usage' = [provider |-> provider, model |-> model, cost |-> cost,
                             returned |-> FALSE]
                /\ UNCHANGED <<balance, transactions, creditStorage>>
           ELSE LET newBalance      == Debited(balance, cost)
                    newTransactions == <<UsageRecord(provider, model, cost)>>
                                       \o transactions
                IN  /\ balance' = newBalance
                    /\ transactions' = newTransactions
                    /\ creditStorage' = [has |-> TRUE, balance |-> newBalance,
                                         transactions |-> newTransactions]
                    /\ usage' = [provider |-> provider, model |-> model,
                                 cost |-> cost, returned |-> TRUE]
    /\ UNCHANGED <<appVars, sendVars, wallet, rpcUp, adapter, cancelRequested, other,
                   second, solanaVars, creditsLoading, purchasePc, purchase,
                   transfers, purchases, loopVars, requests>>

UsesCredits == \E pair \in UsagePairs : useCredits(pair[1], pair[2])

\* What loadCredits finds of an earlier run: a starter package bought with
\* PURP and 97 requests to Claude 3.5 Haiku made.
SavedTransactions ==
    [i \in 1..97 |-> UsageRecord("claude", "claude-3-5-haiku-20241022", 1)]
    \o <<PurchaseRecord(FindPackage("starter-purp"), <<"purp_", "0">>)>>
SavedBalance == [total |-> 100, used |-> 97, remaining |-> 3]

\* loadCredits, run on mount before any purchase or usage: the store holds
\* nothing, or it holds what the earlier run saved, which is then the state.
loadCredits ==
    /\ purchases = 0
    /\ uses = 0
    /\ ~creditStorage.has
    /\ creditStorage' = [has |-> TRUE, balance |-> SavedBalance,
                         transactions |-> SavedTransactions]
    /\ balance' = SavedBalance
    /\ transactions' = SavedTransactions
    /\ UNCHANGED <<appVars, sendVars, wallet, rpcUp, adapter, cancelRequested, other,
                   second, solanaVars, usageVars, creditsLoading, purchasePc,
                   purchase, transfers, purchases, loopVars, requests>>

\* The credits screen and the callers of useCredits, with a wallet connected.
InitUsage ==
    /\ Start
    /\ adapter = "brief"
    /\ wallet = ConnectedWallet
    /\ SolanaStart
    /\ currentProvider = "claude"
    /\ settings.useTools = "true"
    /\ ~Truthy(settings.apiKeys[currentProvider])
    /\ rpcUp

\* The user buys the starter package, with SOL or with PURP.
BuysStarterPackage ==
    \E packageId \in {"starter-sol", "starter-purp"} : purchaseCredits(packageId)

NextUsage ==
    \/ loadCredits
    \/ BuysStarterPackage
    \/ SolTransferReturns
    \/ SolTransferFails
    \/ UsesCredits

SpecUsage == InitUsage /\ [][NextUsage]_vars

\* ------------------------------------------------------------ the wallet

\* The second account of the wallet app, and the demo wallet of the web build.
OtherAddress == <<"7xKXtg2C", "W87d97TXJSDpbD5jBkheTqA83TZRuJ", "osgAsU1a">>
DemoWallet == <<"DemoWa11", "etAddressForWebTesting1111", "11111111">>

\* The accounts the wallet app may authorize.
Accounts == {WalletAddress, OtherAddress}

\* What the RPC node holds for an account: its balance in units of 0.0001 SOL
\* and its token accounts.
ChainBalance(key) == IF key = WalletAddress THEN 15000 ELSE 420
ChainTokens(key) == IF key = WalletAddress THEN <<"USDC", "BONK">> ELSE <<"JUP">>

\* new PublicKey(pubkeyStr) accepts the key: the demo wallet's 42 characters
\* do not decode to 32 bytes.
IsPublicKey(key) == key \in Accounts

Connect(stage, account, token) == [pc |-> stage, key |-> account, token |-> token]

\* The connect calls that have not finished.
InFlight(cs) ==
    { i \in DOMAIN cs : cs[i].pc \notin {"returned", "resolved", "threw"} }

\* connect with its guard on connecting removed.
connectUnguarded ==
    /\ ~wallet.connected
    /\ Len(connects) < MaxConnects
    /\ connecting' = TRUE
    /\ connects' = Append(connects,
                          IF platform = "web"
                          THEN Connect("savingPubkey", DemoWallet, "demo-token")
                          ELSE Connect("authorizing", NoKey, Undefined))
    /\ UNCHANGED <<appVars, sendVars, wallet, rpcUp, adapter, cancelRequested, other,
                   second, platform, authToken, walletStorage, disconnecting, loadPc,
                   fetches, usageVars, creditVars, loopVars, requests>>

\* connect up to its first await, called from the wallet button or the credits
\* sheet, which offer it while the wallet is not connected: it returns at once
\* while connecting is set; otherwise it sets connecting and awaits the first
\* storage write (web) or the wallet app's authorization.
connect ==
    /\ ~wallet.connected
    /\ Len(connects) < MaxConnects
    /\ IF connecting
       THEN /\ connects' = Append(connects, Connect("returned", NoKey, Undefined))
            /\ UNCHANGED connecting
       ELSE /\ connecting' = TRUE
            /\ connects' = Append(connects,
                                  IF platform = "web"
                                  THEN Connect("savingPubkey", DemoWallet, "demo-token")
                                  ELSE Connect("authorizing", NoKey, Undefined))
    /\ UNCHANGED <<appVars, sendVars, wallet, rpcUp, adapter, cancelRequested, other,
                   second, platform, authToken, walletStorage, disconnecting, loadPc,
                   fetches, usageVars, creditVars, loopVars, requests>>

\* transact(authorize) resolves with the first account and its token; connect
\* goes on to its first storage write.
AuthorizationReturns ==
    /\ \E i \in DOMAIN connects, key \in Accounts :
         /\ connects[i].pc = "authorizing"
         /\ connects' = [connects EXCEPT ![i] = Connect("savingPubkey", key, AuthToken)]
    /\ UNCHANGED <<appVars, sendVars, wallet, rpcUp, adapter, cancelRequested, other,
                   second, platform, connecting, authToken, walletStorage,
                   disconnecting, loadPc, fetches, usageVars, creditVars, loopVars,
                   requests>>

\* transact(authorize) rejects (the user declines, no wallet app): the catch
\* clause rethrows, the finally clause resets connecting.
AuthorizationFails ==
    /\ \E i \in DOMAIN connects :
         /\ connects[i].pc = "authorizing"
         /\ connects' = [connects EXCEPT ![i].pc = "threw"]
    /\ connecting' = FALSE
    /\ UNCHANGED <<appVars, sendVars, wallet, rpcUp, adapter, cancelRequested, other,
                   second, platform, authToken, walletStorage, disconnecting, loadPc,
                   fetches, usageVars, creditVars, loopVars, requests>>

\* await storage.setItem('walletPubkey', ...) of connect.
ConnectSavesPubkey ==
    /\ \E i \in DOMAIN connects :
         /\ connects[i].pc = "savingPubkey"
         /\ walletStorage' = [walletStorage EXCEPT !.walletPubkey = connects[i].key]
         /\ connects' = [connects EXCEPT ![i].pc = "savingToken"]
    /\ UNCHANGED <<appVars, sendVars, wallet, rpcUp, adapter, cancelRequested, other,
                   second, platform, connecting, authToken, disconnecting, loadPc,
                   fetches, usageVars, creditVars, loopVars, requests>>

\* await storage.setItem('authToken', ...) of connect, and what follows it:
\* setAuthToken, setWallet, and on the web the return through the finally
\* clause, elsewhere the call of fetchBalance, which connect awaits.
ConnectSavesToken ==
    /\ \E i \in DOMAIN connects :
         /\ connects[i].pc = "savingToken"
         /\ walletStorage' = [walletStorage EXCEPT !.authToken = connects[i].token]
         /\ authToken' = connects[i].token
         /\ wallet' = [connected |-> TRUE, publicKey |-> connects[i].key,
                       balance |-> 0, tokens |-> <<>>]
         /\ IF platform = "web"
            THEN /\ connects' = [connects EXCEPT ![i].pc = "resolved"]
                 /\ connecting' = FALSE
                 /\ UNCHANGED fetches
            ELSE /\ connects' = [connects EXCEPT ![i].pc = "fetching"]
                 /\ fetches' = fetches \cup {BalanceFetch(connects[i].key, "balance", i)}
                 /\ UNCHANGED connecting
    /\ UNCHANGED <<appVars, sendVars, rpcUp, adapter, cancelRequested, other, second,
                   platform, disconnecting, loadPc, usageVars, creditVars, loopVars,
                   requests>>

\* fetchBalance has returned to the connect call that awaited it, if any.
FetchReturnsTo(cs, f) ==
    IF f.call > 0 THEN [cs EXCEPT ![f.call].pc = "resolved"] ELSE cs

\* await connection.getBalance(pubkey) of a fetchBalance call: the balance is
\* set and the token accounts are asked for; or the constructor or the request
\* throws, which fetchBalance catches.
BalanceReturns ==
    /\ \E f \in fetches :
         /\ f.stage = "balance"
         /\ IF rpcUp /\ IsPublicKey(f.key)
            THEN /\ wallet' = [wallet EXCEPT !.balance = ChainBalance(f.key)]
                 /\ fetches' = (fetches \ {f}) \cup {[f EXCEPT !.stage = "tokens"]}
                 /\ UNCHANGED <<connects, connecting>>
            ELSE /\ fetches' = fetches \ {f}
                 /\ connects' = FetchReturnsTo(connects, f)
                 /\ connecting' = IF f.call > 0 THEN FALSE ELSE connecting
                 /\ UNCHANGED wallet
    /\ UNCHANGED <<appVars, sendVars, rpcUp, adapter, cancelRequested, other, second,
                   platform, authToken, walletStorage, disconnecting, loadPc,
                   usageVars, creditVars, loopVars, requests>>

\* await connection.getParsedTokenAccountsByOwner(...) of a fetchBalance call:
\* the tokens are set and fetchBalance returns.
TokensReturn ==
    /\ \E f \in fetches :
         /\ f.stage = "tokens"
         /\ wallet' = [wallet EXCEPT !.tokens = ChainTokens(f.key)]
         /\ fetches' = fetches \ {f}
         /\ connects' = FetchReturnsTo(connects, f)
         /\ connecting' = IF f.call > 0 THEN FALSE ELSE connecting
    /\ UNCHANGED <<appVars, sendVars, rpcUp, adapter, cancelRequested, other, second,
                   platform, authToken, walletStorage, disconnecting, loadPc,
                   usageVars, creditVars, loopVars, requests>>

\* refreshBalance, from the wallet sheet's Refresh button.
refreshBalance ==
    /\ wallet.publicKey # NoKey
    /\ BalanceFetch(wallet.publicKey, "balance", 0) \notin fetches
    /\ fetches' = fetches \cup {BalanceFetch(wallet.publicKey, "balance", 0)}
    /\ UNCHANGED <<appVars, sendVars, wallet, rpcUp, adapter, cancelRequested, other,
                   second, platform, connecting, authToken, walletStorage, connects,
                   disconnecting, loadPc, usageVars, creditVars, loopVars, requests>>

\* loadSavedWallet, run on mount: when a key and a token are stored they become
\* the state and the balance is fetched in the background.
loadSavedWallet ==
    /\ loadPc = "pending"
    /\ loadPc' = "done"
    /\ IF walletStorage.walletPubkey # NoKey /\ Truthy(walletStorage.authToken)
       THEN /\ authToken' = walletStorage.authToken
            /\ wallet' = [wallet EXCEPT !.connected = TRUE,
                                        !.publicKey = walletStorage.walletPubkey]
            /\ fetches' = fetches
                          \cup {BalanceFetch(walletStorage.walletPubkey, "balance", 0)}
       ELSE UNCHANGED <<authToken, wallet, fetches>>
    /\ UNCHANGED <<appVars, sendVars, rpcUp, adapter, cancelRequested, other, second,
                   platform, connecting, walletStorage, connects, disconnecting,
                   usageVars, creditVars, loopVars, requests>>

\* disconnect up to its first await, from the wallet sheet, which is shown for
\* a connected wallet and opened by the wallet button, itself disabled while
\* connecting: the wallet app is asked to deauthorize, or (no token, or the
\* web) the first storage key is deleted.
disconnect ==
    /\ wallet.connected
    /\ ~connecting
    /\ disconnecting.pc \in {"idle", "done"}
    /\ disconnecting' = IF Truthy(authToken) /\ platform # "web"
                        THEN [pc |-> "deauthorizing", deauthorized |-> Undefined]
                        ELSE [pc |-> "deletingPubkey", deauthorized |-> "skipped"]
    /\ UNCHANGED <<appVars, sendVars, wallet, rpcUp, adapter, cancelRequested, other,
                   second, platform, connecting, authToken, walletStorage, connects,
                   loadPc, fetches, usageVars, creditVars, loopVars, requests>>

\* transact(deauthorize) resolves, or rejects and the catch clause logs it.
DeauthorizeSettles ==
    /\ disconnecting.pc = "deauthorizing"
    /\ \E how \in {"done", "failed"} :
         disconnecting' = [pc |-> "deletingPubkey", deauthorized |-> how]
    /\ UNCHANGED <<appVars, sendVars, wallet, rpcUp, adapter, cancelRequested, other,
                   second, platform, connecting, authToken, walletStorage, connects,
                   loadPc, fetches, usageVars, creditVars, loopVars, requests>>

\* await storage.deleteItem('walletPubkey') of disconnect.
DisconnectDeletesPubkey ==
    /\ disconnecting.pc = "deletingPubkey"
    /\ walletStorage' = [walletStorage EXCEPT !.walletPubkey = NoKey]
    /\ disconnecting' = [disconnecting EXCEPT !.pc = "deletingToken"]
    /\ UNCHANGED <<appVars, sendVars, wallet, rpcUp, adapter, cancelRequested, other,
                   second, platform, connecting, authToken, connects, loadPc, fetches,
                   usageVars, creditVars, loopVars, requests>>

\* The state that disconnect leaves with the balance kept.
ClearedKeepingBalance(w) ==
    [connected |-> FALSE, publicKey |-> NoKey, balance |-> w.balance, tokens |-> <<>>]

\* setWallet({connected: false, publicKey: null, balance: 0, tokens: []})
Cleared(w) ==
    [connected |-> FALSE, publicKey |-> NoKey, balance |-> 0, tokens |-> <<>>]

\* await storage.deleteItem('authToken') of disconnect, and what follows it:
\* setAuthToken(null) and setWallet.
DisconnectDeletesToken ==
    /\ disconnecting.pc = "deletingToken"
    /\ walletStorage' = [walletStorage EXCEPT !.authToken = Undefined]
    /\ authToken' = Undefined
    /\ wallet' = Cleared(wallet)
    /\ disconnecting' = [disconnecting EXCEPT !.pc = "done"]
    /\ UNCHANGED <<appVars, sendVars, rpcUp, adapter, cancelRequested, other, second,
                   platform, connecting, connects, loadPc, fetches, usageVars,
                   creditVars, loopVars, requests>>

\* The recipient and the amount typed into the wallet sheet: 0.5 SOL, which is
\* 5000 in the units of the balance.
SheetRecipient == "7xKXtg2CW87d97TXJSDpbD5jBkheTqA83TZRuJosgAsU1a"
SheetAmount == 5000

\* sendSol up to its await, from the wallet sheet, which refuses an amount
\* above the balance it shows and disables its button while a transfer is
\* being sent: the wallet app is asked to sign and send the transfer. (On the
\* web transact is null and the call throws at once, as it does without a key
\* or a token.)
sendSol ==
    /\ wallet.publicKey # NoKey
    /\ Truthy(authToken)
    /\ platform # "web"
    /\ SheetAmount <= wallet.balance
    /\ \A f \in fetches : f.stage # "signing"
    /\ Len(transfers) < MaxSends
    /\ transfers' = Append(transfers, [from |-> wallet.publicKey,
                                       to |-> SheetRecipient, amount |-> "0.5"])
    /\ fetches' = fetches \cup {BalanceFetch(wallet.publicKey, "signing", 0)}
    /\ UNCHANGED <<appVars, sendVars, wallet, rpcUp, adapter, cancelRequested, other,
                   second, platform, connecting, authToken, walletStorage, connects,
                   disconnecting, loadPc, usageVars, balance, transactions,
                   creditsLoading, creditStorage, purchasePc, purchase, purchases,
                   loopVars, requests>>

\* The wallet app returns the signature and sendSol sets its timer, or the
\* wallet app fails and sendSol throws.
SendSolSettles ==
    /\ \E f \in fetches :
         /\ f.stage = "signing"
         /\ \/ fetches' = (fetches \ {f}) \cup {RefreshTimer(f.key)}
            \/ fetches' = fetches \ {f}
    /\ UNCHANGED <<appVars, sendVars, wallet, rpcUp, adapter, cancelRequested, other,
                   second, platform, connecting, authToken, walletStorage, connects,
                   disconnecting, loadPc, usageVars, creditVars, loopVars, requests>>

\* The timer of sendSol fires: refreshBalance, as sendSol held it, calls
\* fetchBalance for the key of that render.
RefreshTimerFires ==
    /\ \E f \in fetches :
         /\ f.stage = "timer"
         /\ fetches' = (fetches \ {f}) \cup {BalanceFetch(f.key, "balance", 0)}
    /\ UNCHANGED <<appVars, sendVars, wallet, rpcUp, adapter, cancelRequested, other,
                   second, platform, connecting, authToken, walletStorage, connects,
                   disconnecting, loadPc, usageVars, creditVars, loopVars, requests>>

\* The app is opened, on a phone or on the web, with or without a wallet saved
\* by an earlier run.
InitWallet ==
    /\ Start
    /\ adapter = "brief"
    /\ currentProvider = "claude"
    /\ settings.useTools = "true"
    /\ ~Truthy(settings.apiKeys[currentProvider])
    /\ wallet = DisconnectedWallet
    /\ platform \in {"android", "web"}
    /\ connecting = FALSE
    /\ authToken = Undefined
    /\ walletStorage \in
         { NoWalletStorage,
           IF platform = "web"
           THEN [walletPubkey |-> DemoWallet, authToken |-> "demo-token"]
           ELSE [walletPubkey |-> WalletAddress, authToken |-> AuthToken] }
    /\ connects = <<>>
    /\ disconnecting = NoDisconnect
    /\ loadPc = "pending"
    /\ fetches = {}

NextWallet ==
    \/ loadSavedWallet
    \/ connect
    \/ AuthorizationReturns
    \/ AuthorizationFails
    \/ ConnectSavesPubkey
    \/ ConnectSavesToken
    \/ BalanceReturns
    \/ TokensReturn
    \/ refreshBalance
    \/ disconnect
    \/ DeauthorizeSettles
    \/ DisconnectDeletesPubkey
    \/ DisconnectDeletesToken
    \/ sendSol
    \/ SendSolSettles
    \/ RefreshTimerFires

SpecWallet == InitWallet /\ [][NextWallet]_vars

\* C30: at most one connect call is past its guard and unfinished, so at most
\* one authorization is in flight: a call made meanwhile has returned without
\* starting one; and once no call is unfinished, whether the calls resolved,
\* threw or took the web path, connecting is false.
C30_OneAuthorizationInFlight ==
    /\ Cardinality(InFlight(connects)) <= 1
    /\ \A i \in DOMAIN connects :
         connects[i].pc = "returned" => connects[i].key = NoKey
    /\ InFlight(connects) = {} => ~connecting

\* A connect call was made while another was in progress and returned; the
\* other has finished since.
C30_Witness ==
    /\ Len(connects) = 2
    /\ connects[2].pc = "returned"
    /\ connects[1].pc \in {"resolved", "threw"}
    /\ ~connecting

\* C28: in every wallet state connected holds exactly when publicKey is not
\* null; and the step that ends a disconnect call leaves the wallet
\* disconnected with no key, balance 0 and no tokens, the token cleared and
\* neither key in storage, also when the wallet app failed to deauthorize.
C28_ConnectedIffKeyAndDisconnectClears ==
    [][/\ wallet.connected <=> wallet.publicKey # NoKey
       /\ wallet'.connected <=> wallet'.publicKey # NoKey
       /\ (disconnecting.pc # "done" /\ disconnecting'.pc = "done")
          => /\ disconnecting'.deauthorized \in {"done", "failed", "skipped"}
             /\ wallet' = DisconnectedWallet
             /\ authToken' = Undefined
             /\ walletStorage' = NoWalletStorage]_vars

\* A disconnect call has ended although the wallet app failed to deauthorize,
\* after the balance of the wallet had been fetched.
C28_Witness ==
    /\ disconnecting = [pc |-> "done", deauthorized |-> "failed"]
    /\ connects # <<>>
    /\ connects[1].pc = "resolved"
    /\ wallet = DisconnectedWallet
    /\ walletStorage = NoWalletStorage

\* C29: a disconnected wallet has balance 0 and no tokens, also after a fetch
\* that was started while it was connected has completed; and a connected
\* wallet shows nothing but its own key's balance and tokens, or none yet.
C29_FetchesWriteOwnWalletOnly ==
    /\ ~wallet.connected => wallet.balance = 0 /\ wallet.tokens = <<>>
    /\ wallet.connected
       => /\ wallet.balance \in {0, ChainBalance(wallet.publicKey)}
          /\ wallet.tokens \in {<<>>, ChainTokens(wallet.publicKey)}

\* ------------------------------------------------ a caller that gives up

\* The caller of sendMessage decides to stop the send that is in flight.
\* sendMessage and chatWithTools take no signal, so the decision changes
\* nothing that they read.
CallerCancels ==
    /\ sendPc = "running"
    /\ ~cancelRequested
    /\ cancelRequested' = TRUE
    /\ UNCHANGED <<appVars, sendVars, wallet, rpcUp, adapter, other, second,
                   solanaVars, usageVars, creditVars, loopVars, requests>>

\* Tool-enabled sends against a provider that may answer anything.
InitCancel ==
    /\ Init
    /\ settings.useTools = "true"
    /\ adapter = "free"
    /\ Truthy(settings.apiKeys[currentProvider])

NextCancel ==
    \/ SendMessage
    \/ ProviderResponds
    \/ ToolSettles
    \/ SendResolves
    \/ SendRejects
    \/ CallerCancels

SpecCancel == InitCancel /\ [][NextCancel]_vars

\* ------------------------------------------- two executions side by side

OtherContent == "What is the SOL price?"

\* A second call of chatWithTools is made while the first is in flight. It is
\* handed the locals of the first as they stand, which is all the state a
\* call could find in the module; it starts from its own.
OtherStarts ==
    /\ other.loop.pc = "idle"
    /\ pc \in {"awaiting", "executing"}
    /\ \E p \in Providers, address \in {NoKey, wallet.publicKey} :
         LET messages == <<Message("system", SOLANA_SYSTEM_PROMPT),
                           Message("user", OtherContent)>>
         IN  other' = [provider |-> p, messages |-> messages,
                       walletAddress |-> address,
                       loop |-> StartLoop(p, messages, address,
                                          [Loop EXCEPT !.requests = 0]),
                       received |-> <<>>]
    /\ UNCHANGED <<appVars, sendVars, wallet, rpcUp, adapter, cancelRequested,
                   second, solanaVars, usageVars, creditVars, loopVars, requests>>

\* The fetch of the second call resolves.
OtherResponds ==
    /\ other.loop.pc = "awaiting"
    /\ \E r \in AnswersTo(other.provider, other.loop.batches + 1, other.loop.requests) :
         other' = [other EXCEPT !.received = Append(@, r),
                                !.loop = AfterResponse(other.provider, r, @)]
    /\ UNCHANGED <<appVars, sendVars, wallet, rpcUp, adapter, cancelRequested,
                   second, solanaVars, usageVars, creditVars, loopVars, requests>>

\* One executeTool promise of the second call settles.
OtherToolSettles ==
    /\ other.loop.pc = "executing"
    /\ \E i \in other.loop.pending :
         LET l   == other.loop
             out == executeTool(l.calls[i].name, l.calls[i].args.obj, rpcUp)
         IN  other' = [other EXCEPT !.loop =
                          AfterTool(other.provider, Last(other.received), i, out, l)]
    /\ UNCHANGED <<appVars, sendVars, wallet, rpcUp, adapter, cancelRequested,
                   second, solanaVars, usageVars, creditVars, loopVars, requests>>

\* Tool-enabled sends against a provider that answers with the stub's tool
\* requests, with the answer or with an error.
InitPair ==
    /\ Start
    /\ adapter = "brief"
    /\ wallet \in {DisconnectedWallet, ConnectedWallet}
    /\ SolanaStart
    /\ settings.useTools = "true"
    /\ Truthy(settings.apiKeys[currentProvider])

NextPair ==
    \/ SendMessage
    \/ ProviderResponds
    \/ ToolSettles
    \/ SendResolves
    \/ SendRejects
    \/ OtherStarts
    \/ OtherResponds
    \/ OtherToolSettles

SpecPair == InitPair /\ [][NextPair]_vars

\* ------------------------------------------------- sends without a key

\* No API key is stored for the current provider; the user presses send,
\* starts conversations and buys credits.
InitKeyless ==
    /\ Init
    /\ adapter = "brief"
    /\ rpcUp
    /\ ~Truthy(settings.apiKeys[currentProvider])

NextKeyless ==
    \/ SendMessage
    \/ createNewConversation
    \/ PurchasesCredits
    \/ SolTransferReturns
    \/ SolTransferFails

SpecKeyless == InitKeyless /\ [][NextKeyless]_vars

\* ------------------------------------------------------ overlapping sends

\* The text of the suggestion chip the user presses.
SuggestionContent == "What is Solana and how does it work?"

\* A suggestion chip is pressed while a send is in flight: the chips are shown
\* while the current conversation has no message and are disabled only while
\* the provider has no API key. The call is sendMessage of the current render:
\* it reads the state as it stands, and runs up to the fetch of its provider
\* function. The specification of overlapping sends takes the tool path.
SecondSendMessage ==
    /\ sendPc = "running"
    /\ second.pc = "idle"
    /\ other.loop.pc = "idle"
    /\ Len(currentConversation.messages) = 0
    /\ Truthy(settings.apiKeys[currentProvider])
    /\ UsesTools(settings)
    /\ LET convo == IF currentConversation = NoConversation
                    THEN [id |-> now + 1, messages |-> <<>>]
                    ELSE currentConversation
           userMessage == Message("user", SuggestionContent)
           systemMessage == Message("system", SOLANA_SYSTEM_PROMPT
                                              \o buildWalletContext(wallet))
           messagesForAPI == <<systemMessage>> \o convo.messages \o <<userMessage>>
       IN  /\ second' = [pc |-> "running", content |-> SuggestionContent,
                         convo |-> convo, userMessage |-> userMessage,
                         conversations |-> conversations, error |-> NoError]
           /\ other' = [provider |-> currentProvider, messages |-> messagesForAPI,
                        walletAddress |-> wallet.publicKey,
                        loop |-> StartLoop(currentProvider, messagesForAPI,
                                           wallet.publicKey,
                                           [Loop EXCEPT !.requests = 0]),
                        received |-> <<>>]
    /\ isLoading' = TRUE
    /\ now' = now + 1
    /\ UNCHANGED <<currentProvider, settings, conversations, currentConversation,
                   storage, sendVars, wallet, rpcUp, adapter, cancelRequested,
                   solanaVars, usageVars, creditVars, loopVars, requests>>

\* The second call after the await of its provider call, the call having
\* returned: the conversation and the list are built from what the call read
\* when it started.
SecondSendResolves ==
    /\ second.pc = "running"
    /\ other.loop.pc = "done"
    /\ LET updatedConvo == UpdatedConvo(second.convo, second.userMessage,
                                        other.loop.answer)
           updatedConvos == UpdatedConvos(second.conversations, updatedConvo)
       IN  /\ currentConversation' = updatedConvo
           /\ conversations' = updatedConvos
           /\ storage' = [has |-> TRUE, value |-> JSONstringify(updatedConvos)]
    /\ isLoading' = FALSE
    /\ second' = [second EXCEPT !.pc = "resolved"]
    /\ UNCHANGED <<currentProvider, settings, now, sendVars, wallet, rpcUp, adapter,
                   cancelRequested, other, solanaVars, usageVars, creditVars,
                   loopVars, requests>>

\* The second call after the await of its provider call, the call having
\* thrown.
SecondSendRejects ==
    /\ second.pc = "running"
    /\ other.loop.pc = "failed"
    /\ isLoading' = FALSE
    /\ second' = [second EXCEPT !.pc = "threw", !.error = other.loop.error]
    /\ UNCHANGED <<currentProvider, settings, conversations, currentConversation,
                   storage, now, sendVars, wallet, rpcUp, adapter, cancelRequested,
                   other, solanaVars, usageVars, creditVars, loopVars, requests>>

\* Tool-enabled sends, with a key, against the provider of few answers.
InitOverlap ==
    /\ Start
    /\ adapter = "brief"
    /\ wallet = ConnectedWallet
    /\ SolanaStart
    /\ settings.useTools = "true"
    /\ Truthy(settings.apiKeys[currentProvider])

NextOverlap ==
    \/ SendMessage
    \/ ProviderResponds
    \/ ToolSettles
    \/ SendResolves
    \/ SendRejects
    \/ createNewConversation
    \/ SecondSendMessage
    \/ OtherResponds
    \/ OtherToolSettles
    \/ SecondSendResolves
    \/ SecondSendRejects

SpecOverlap == InitOverlap /\ [][NextOverlap]_vars

\* ------------------------------------------------------------ the claims

\* A provider function of ai-with-tools.ts has been called by the current send.
InToolLoop ==
    pc \in {"awaiting", "executing", "done", "failed"} /\ UsesTools(settings)

\* The response the provider function read last.
Data == Last(received)

IsPrefix(a, b) == Len(a) <= Len(b) /\ \A i \in 1..Len(a) : a[i] = b[i]

\* The tool results that request b carries for the round that followed request
\* a: one entry holding them all (Claude, Gemini) or one entry each (OpenAI,
\* Doubao), after the entry of the assistant's turn.
CarriedResults(provider, a, b) ==
    IF provider \in SequentialProviders
    THEN [i \in 1..(Len(b) - Len(a) - 1) |->
            IF b[Len(a) + 1 + i].role = "tool" /\ Len(b[Len(a) + 1 + i].results) = 1
            THEN b[Len(a) + 1 + i].results[1] ELSE NoResult]
    ELSE IF Len(b) = Len(a) + 2 /\ b[Len(b)].role = "user" THEN b[Len(b)].results
         ELSE <<NoResult>>

\* The executeTool calls made in round k.
CallsOfRound(k) == SelectSeq(execLog, LAMBDA e : e.round = k)

\* C1: in each provider loop, as soon as a response contains no tool request
\* the loop returns that response's text unchanged, and issues no further
\* provider request and no tool execution.
C1_FinalAnswerEndsLoop ==
    (InToolLoop /\ received # <<>> /\ Data.ok /\ Data.hasField
       /\ ToolRequests(send.provider, Data) = <<>>)
    => /\ pc = "done"
       /\ answer = FinalText(send.provider, Data)
       /\ Len(sent) = Len(received)
       /\ pending = {}

\* C2: for every response that requests N tools (and that the loop takes for a
\* tool round) the loop calls executeTool exactly N times, once per request,
\* and the next provider request carries exactly N results, each tagged with
\* the correlation identifier of its request (the function name for Gemini).
C2_EveryRequestAnsweredOnce ==
    (InToolLoop /\ received # <<>> /\ Data.ok /\ Data.hasField /\ pc # "executing"
       /\ LoopCondition(send.provider, Data))
    => LET reqs == ToolRequests(send.provider, Data)
           made == CallsOfRound(Len(received))
       IN  reqs # <<>> =>
             /\ Len(made) = Len(reqs)
             /\ \A i \in 1..Len(reqs) : made[i].index = i /\ made[i].name = reqs[i].name
             /\ Len(sent) = Len(received) + 1
             /\ LET got == CarriedResults(send.provider,
                                          sent[Len(received)].messages,
                                          sent[Len(received) + 1].messages)
                IN  /\ Len(got) = Len(reqs)
                    /\ \A i \in 1..Len(reqs) :
                         got[i].tag = ResultTag(send.provider, reqs[i])

\* C3: against a provider that answers every round with tool requests the loop
\* stops within the round ceiling of 10: an eleventh round of tool execution
\* never begins.
C3_LoopStopsAtCeiling ==
    adapter = "alwaysTools" => batches <= 10

\* C4: a failure while a requested tool is executed (a malformed argument
\* included) never aborts the loop: the loop never ends with an error thrown
\* while it handled a tool request.
C4_ToolFailureNeverAborts ==
    (InToolLoop /\ pc = "failed")
    => error.at \notin {"JSON.parse(arguments)", "executeTool", "JSON.parse(result)"}

\* C5: executeTool never throws: every call returns a string, and when the
\* selected handler raised, the string is the JSON encoding of {error: message}.
C5_ExecuteToolNeverThrows ==
    \A k \in DOMAIN settled :
      LET e == settled[k]
          d == Dispatch(e.name, e.params, rpcUp)
      IN  /\ e.outcome.kind = "return"
          /\ e.outcome.value.valid
          /\ d.raised =>
               e.outcome.value = JSONstringify([key |-> "error", val |-> d.out])

\* A handler raised on an argument mapping that is no object, and the call has
\* settled by returning.
C5_Witness ==
    \E k \in DOMAIN settled :
      /\ Dispatch(settled[k].name, settled[k].params, rpcUp).raised
      /\ ~settled[k].params.isObject
      /\ settled[k].outcome.kind = "return"

\* C6: a non-2xx response at any round ends the loop at once in failure with
\* the provider's error message: no further request, no tool in flight, no
\* answer; on the first request no tool has been executed.
C6_ProviderErrorEndsLoop ==
    (received # <<>> /\ ~Data.ok)
    => /\ pc = "failed"
       /\ answer = Undefined
       /\ Len(sent) = Len(received)
       /\ pending = {}
       /\ sendPc # "resolved"
       /\ Data.errBody = "message" =>
            error.kind = "Error" /\ error.message = ErrorMessage
       /\ Data.errBody = "empty" =>
            error.kind = "Error" /\ error.message = DefaultApiError(send.provider)
       /\ Len(received) = 1 => execLog = <<>>

\* The follow-up request after a round of tools got a non-2xx response with a
\* message.
C6_Witness ==
    /\ Len(received) >= 2
    /\ ~Data.ok
    /\ Data.errBody = "message"
    /\ execLog # <<>>
    /\ pc = "failed"

\* C7: a 2xx response that omits the field the code expects ends the loop in
\* failure with a ProviderProtocolError: no untyped crash, no empty answer.
C7_MalformedIsProtocolError ==
    (InToolLoop /\ received # <<>> /\ Data.ok /\ ~Data.hasField)
    => pc = "failed" /\ error.kind = "ProviderProtocolError"

\* C8: when a send fails (no API key, provider error, exception in the tool
\* loop) sendMessage appends nothing: no step of a send that is in flight or
\* has thrown changes currentConversation, the conversations list or the
\* 'conversations' storage key, and what the provider call threw is rethrown.
C8_FailedSendLeavesTranscript ==
    [][ /\ sendPc' \in {"running", "threw"} =>
             /\ conversations' = conversations
             /\ currentConversation' = currentConversation
             /\ storage' = storage
        /\ (sendPc = "running" /\ pc = "failed" /\ sendPc' # sendPc) =>
             sendPc' = "threw" /\ sendError' = error
        /\ (sendPc = "running" /\ sendPc' = "resolved") => pc = "done"
      ]_vars

\* A send on a conversation that already holds an exchange has thrown what the
\* tool loop threw.
C8_Witness ==
    /\ sendPc = "threw"
    /\ pc = "failed"
    /\ sendError = error
    /\ Len(currentConversation.messages) >= 2
    /\ conversations # <<>>
    /\ storage.has

\* C9: within one loop execution the history sent to the provider is
\* append-only: the history of request k+1 is the history of request k, then
\* the assistant's tool-request turn, then that turn's tool results.
C9_HistoryAppendOnly ==
    InToolLoop =>
      \A k \in 1..(Len(sent) - 1) :
        LET a    == sent[k].messages
            b    == sent[k + 1].messages
            reqs == ToolRequests(send.provider, received[k])
            got  == CarriedResults(send.provider, a, b)
        IN  /\ IsPrefix(a, b)
            /\ Len(b) > Len(a)
            /\ b[Len(a) + 1] = AssistantEntry(send.provider, received[k])
            /\ Len(b) = Len(a) + 1 + (IF send.provider \in SequentialProviders
                                      THEN Len(reqs) ELSE 1)
            /\ Len(got) = Len(reqs)
            /\ \A i \in 1..Len(reqs) :
                 got[i].tag = ResultTag(send.provider, reqs[i])

\* Three requests of one loop execution, the second and third each extending
\* the one before by a round with tool requests.
C9_Witness ==
    /\ InToolLoop
    /\ Len(sent) >= 3
    /\ ToolRequests(send.provider, received[1]) # <<>>
    /\ ToolRequests(send.provider, received[2]) # <<>>

\* The result the code sends back for a request, whenever its tool completes.
ExpectedResult(provider, call) ==
    ToolResult(provider, call, executeTool(call.name, call.args.obj, rpcUp).value)

\* C10: within a round the tools may complete in any order; the follow-up
\* request is issued only after all of them have completed, and it carries, at
\* the position of each request, that request's identifier and result, whatever
\* the order of completion.
C10_ResultsIndependentOfCompletionOrder ==
    InToolLoop =>
      /\ (pc = "awaiting" /\ received # <<>>) =>
           /\ pending = {}
           /\ {settled[j].index : j \in DOMAIN settled} = DOMAIN calls
           /\ Len(settled) = Len(calls)
      /\ \A k \in 1..(Len(sent) - 1) :
           LET reqs == ToolRequests(send.provider, received[k])
               got  == CarriedResults(send.provider, sent[k].messages,
                                      sent[k + 1].messages)
           IN  /\ Len(got) = Len(reqs)
               /\ \A i \in 1..Len(reqs) :
                    got[i] = ExpectedResult(send.provider, reqs[i])

\* The follow-up request of a round of two different tools has been issued, the
\* second tool having completed before the first.
C10_Witness ==
    /\ InToolLoop
    /\ pc = "awaiting"
    /\ Len(sent) = Len(received) + 1
    /\ Len(settled) = 2
    /\ settled[1].index = 2
    /\ settled[2].index = 1
    /\ calls[1].name # calls[2].name

\* C11: the loop performs no retries: each round issues exactly one provider
\* request, so an execution that ends after r tool rounds has issued exactly
\* r + 1 requests; no request is sent twice, and a response that failed is the
\* last one the execution receives.
C11_NoRetries ==
    InToolLoop =>
      /\ pc \in {"awaiting", "done"} => Len(sent) = batches + 1
      /\ pc = "executing" => Len(sent) = batches
      /\ pc = "failed" => Len(sent) \in {batches, batches + 1}
      /\ pc \in {"done", "failed"} => Len(received) \in {batches, batches + 1}
      /\ Len(received) <= Len(sent)
      /\ Len(sent) <= Len(received) + 1
      /\ \A j \in DOMAIN sent : \A k \in DOMAIN sent : sent[j] = sent[k] => j = k
      /\ \A k \in DOMAIN received :
           ~received[k].ok
           => k = Len(received) /\ Len(sent) = k /\ pc = "failed"

\* An execution has returned its answer after one round of tools and two
\* requests.
C11_Witness ==
    /\ InToolLoop
    /\ pc = "done"
    /\ batches = 1
    /\ Len(sent) = 2
    /\ execLog # <<>>

\* A round's tools settled in the order of their requests, from loop state l.
RECURSIVE SettleInOrder(_, _, _)
SettleInOrder(provider, data, l) ==
    IF l.pc # "executing" THEN l
    ELSE LET i == CHOOSE i \in l.pending : \A j \in l.pending : i <= j
         IN  SettleInOrder(provider, data,
                           AfterTool(provider, data, i,
                                     executeTool(l.calls[i].name, l.calls[i].args.obj,
                                                 rpcUp),
                                     l))

\* The provider function run from loop state l on the responses rs[k], rs[k+1],
\* ..., every round's tools settling in the order of their requests.
RECURSIVE Replay(_, _, _, _)
Replay(provider, rs, k, l) ==
    IF k > Len(rs) \/ l.pc # "awaiting" THEN l
    ELSE Replay(provider, rs, k + 1,
                SettleInOrder(provider, rs[k], AfterResponse(provider, rs[k], l)))

\* What an execution gives out: the requests it issued, the tool calls it made,
\* and how it ended.
Outputs(l) ==
    [sent |-> l.sent, execLog |-> l.execLog, pc |-> l.pc, answer |-> l.answer,
     error |-> l.error]

\* The outputs of the reference execution on the same conversation, provider,
\* wallet address, provider responses and tool responses.
Reference(provider, messages, walletAddress, rs) ==
    Outputs(Replay(provider, rs, 1,
                   StartLoop(provider, messages, walletAddress, FreshLoop)))

\* C12: the loop is deterministic: whatever the order in which a round's tools
\* complete, an execution issues the requests and tool calls, and returns the
\* answer or error, that the reference execution on the same conversation,
\* provider, wallet address and stubbed provider and tool responses gives.
C12_Deterministic ==
    (InToolLoop /\ pc # "executing")
    => Outputs(Loop) = Reference(send.provider, send.messages, send.walletAddress,
                                 received)

\* An execution whose round of two different tools completed in the reverse of
\* the request order has returned its answer.
C12_Witness ==
    /\ InToolLoop
    /\ pc = "done"
    /\ Len(sent) = 2
    /\ Len(settled) = 2
    /\ settled[1].index = 2
    /\ calls[1].name # calls[2].name
    /\ answer = AnswerText

\* text.includes(part), for texts given as tuples of parts.
Contains(text, part) ==
    \E i \in 0..(Len(text) - Len(part)) : SubSeq(text, i + 1, i + Len(part)) = part

\* The system text a request carries: its system / systemInstruction field, or
\* (OpenAI, Doubao) the content of its leading system message.
SystemText(provider, request) ==
    IF provider \in SequentialProviders
    THEN (IF request.messages # <<>> /\ request.messages[1].role = "system"
          THEN request.messages[1].content ELSE <<>>)
    ELSE request.system

\* The conversation a request carries: the role and text of each message.
ConversationOf(provider, request) ==
    LET ms == IF provider \in SequentialProviders THEN Tail(request.messages)
              ELSE request.messages
    IN  [i \in DOMAIN ms |->
           IF provider = "gemini"
           THEN Message(IF ms[i].role = "model" THEN "assistant" ELSE "user",
                        ms[i].blocks[1].text)
           ELSE Message(ms[i].role, ms[i].content)]

\* C13: the first provider request of a tool-enabled send carries every
\* non-system message of the conversation in order, the caller's system prompt
\* text, the wallet context string that sendMessage built (address, SOL
\* balance, token count) when a wallet is connected, and all ten tool
\* descriptors.
C13_FirstRequestCarriesContext ==
    (InToolLoop /\ sent # <<>>)
    => LET first == sent[1]
           kept  == SelectSeq(send.messages, NotSystem)
           text  == SystemText(send.provider, first)
       IN  /\ ConversationOf(send.provider, first) = kept
           /\ Contains(text, SOLANA_SYSTEM_PROMPT)
           /\ first.tools = SOLANA_TOOLS
           /\ wallet.connected => Contains(text, buildWalletContext(wallet))

\* C14: once the caller has triggered cancellation of a send in flight, the
\* loop starts no new provider request and no new tool execution, and when the
\* send ends it ends in failure with a Cancelled error, never with an answer.
C14_CancellationStopsLoop ==
    [][ (cancelRequested /\ sendPc = "running") =>
          /\ requests' = requests
          /\ execLog' = execLog
          /\ sendPc' # "running" =>
                /\ sendPc' = "threw"
                /\ sendError'.kind = "Cancelled"
                /\ currentConversation' = currentConversation
      ]_vars

\* C15: two loop executions running side by side (same or different
\* providers) do not interfere: the requests each issues, the tool calls it
\* makes and the answer or error it ends with are those of the same execution
\* run alone, from fresh locals, on its own conversation and responses.
C15_ConcurrentLoopsIndependent ==
    /\ (InToolLoop /\ pc # "executing")
       => Outputs(Loop) = Reference(send.provider, send.messages,
                                    send.walletAddress, received)
    /\ other.loop.pc \in {"awaiting", "done", "failed"}
       => Outputs(other.loop) = Reference(other.provider, other.messages,
                                          other.walletAddress, other.received)

\* Two executions on different providers, the second started while the first
\* was in flight, have each run a round of tools and returned their answers.
C15_Witness ==
    /\ pc = "done"
    /\ other.loop.pc = "done"
    /\ send.provider # other.provider
    /\ batches = 1
    /\ other.loop.batches = 1
    /\ execLog # <<>>
    /\ other.loop.execLog # <<>>
    /\ answer = AnswerText
    /\ other.loop.answer = AnswerText

\* The loop took the last response for a round of tool requests: it began a
\* round for it.
TreatedAsToolRequests == batches = Len(received)

\* The loop took the last response for the final answer: it returned.
TreatedAsFinalAnswer == pc = "done" /\ batches = Len(received) - 1

\* C16: every well-formed provider response is treated as exactly one of
\* FinalAnswer and ToolRequests, and as ToolRequests if and only if it holds at
\* least one tool invocation request: a response with an empty tool-call list
\* is final, and a response that holds tool requests is never final.
C16_ClassifiedByToolRequests ==
    (InToolLoop /\ received # <<>> /\ Data.ok /\ Data.hasField)
    => /\ TreatedAsToolRequests # TreatedAsFinalAnswer
       /\ TreatedAsToolRequests <=> ToolRequests(send.provider, Data) # <<>>

\* The current send went through the basic chat service: one request without
\* tool descriptors, no tool executed.
OnBasicPath ==
    /\ pc \in {"awaitingBasic", "done", "failed"}
    /\ Len(sent) = 1
    /\ sent[1].tools = <<>>
    /\ execLog = <<>>
    /\ batches = 0

\* The current send went through chatWithTools: every request carries the tool
\* descriptors.
OnToolPath ==
    /\ pc \in {"awaiting", "executing", "done", "failed"}
    /\ sent # <<>>
    /\ \A k \in DOMAIN sent : sent[k].tools = SOLANA_TOOLS

C19_CreditsAfterPayment ==
    [][ /\ (balance' # balance \/ transactions' # transactions) =>
             /\ purchasePc' = "resolved"
             /\ purchase'.signature # <<>>
             /\ transactions'[1] = PurchaseRecord(purchase'.pkg, purchase'.signature)
             /\ balance'.total = purchase'.balance.total + purchase'.pkg.credits
             /\ balance'.remaining = purchase'.balance.remaining + purchase'.pkg.credits
             /\ IF purchase'.pkg.token = "SOL"
                THEN /\ purchasePc = "awaitingSol"
                     /\ transfers' = transfers
                     /\ Last(transfers).to = TREASURY_WALLET
                     /\ Last(transfers).amount = purchase'.pkg.price
                ELSE transfers' = transfers
        /\ (purchasePc = "awaitingSol" /\ purchasePc' = "threw") =>
             /\ balance' = balance
             /\ transactions' = transactions
             /\ creditStorage' = creditStorage
             /\ creditsLoading' = FALSE
        /\ transfers' # transfers =>
             /\ purchase'.pkg.token = "SOL"
             /\ balance' = balance
             /\ purchasePc' = "awaitingSol"
      ]_vars

\* After a SOL purchase whose transfer failed, a SOL purchase has been paid
\* and its credits granted.
C19_Witness ==
    /\ purchasePc = "resolved"
    /\ purchase.pkg.token = "SOL"
    /\ Len(transfers) = 2
    /\ Len(transactions) = 1
    /\ balance.total = purchase.pkg.credits
    /\ ~creditsLoading

\* The names declared to the providers.
Declared == { SOLANA_TOOLS[i] : i \in DOMAIN SOLANA_TOOLS }

\* What executeTool returns for a name its switch has no case for.
UnknownToolResult(name) ==
    JSONstringify([key |-> "error", val |-> <<"Unknown tool: ", name>>])

\* C20: tool names are unique within SOLANA_TOOLS and the declared set equals
\* the executable set: in every request the descriptors' names are pairwise
\* different, every call of a declared name is dispatched to a handler and
\* never answered with 'Unknown tool', and every call of a name that is not
\* declared is answered with 'Unknown tool'.
C20_DeclaredEqualsExecutable ==
    /\ \A k \in DOMAIN sent : \A i \in DOMAIN sent[k].tools :
         \A j \in DOMAIN sent[k].tools : sent[k].tools[i] = sent[k].tools[j] => i = j
    /\ Declared = SwitchCases
    /\ \A k \in DOMAIN settled :
         (settled[k].name \in Declared)
         <=> (settled[k].outcome.value # UnknownToolResult(settled[k].name))
    /\ \A k \in DOMAIN sent : \A i \in DOMAIN sent[k].tools :
         executeTool(sent[k].tools[i], Params(TRUE, "ABC"), rpcUp).value
         # UnknownToolResult(sent[k].tools[i])

\* A round has called get_sol_price, which is declared, and its handler has
\* returned data.
C20_Witness ==
    \E k \in DOMAIN settled :
      /\ settled[k].name = "get_sol_price"
      /\ settled[k].name \in Declared
      /\ settled[k].outcome.value.obj.key = "data"

\* The requests of response k whose name is not a declared tool, by index.
UnknownRequests(provider, k) ==
    LET reqs == ToolRequests(provider, received[k])
    IN  { i \in DOMAIN reqs : reqs[i].name \notin Declared }

HoldsExchange(convos, userMessage, reply) ==
    \E i \in DOMAIN convos :
      \E j \in 1..(Len(convos[i].messages) - 1) :
        /\ convos[i].messages[j] = userMessage
        /\ convos[i].messages[j + 1] = Message("assistant", reply)

\* C21: overlapping sends lose nothing: when a second sendMessage has started
\* before the first had finished and both have succeeded, the user/assistant
\* exchange of each is in the conversations list and in what was written to
\* storage.
C21_OverlappingSendsLoseNothing ==
    (sendPc = "resolved" /\ second.pc = "resolved")
    => /\ HoldsExchange(conversations, send.userMessage, answer)
       /\ HoldsExchange(conversations, second.userMessage, other.loop.answer)
       /\ storage.has
       /\ HoldsExchange(storage.value.obj, send.userMessage, answer)
       /\ HoldsExchange(storage.value.obj, second.userMessage, other.loop.answer)

\* C23: isLoading is true exactly while a send is in flight: whenever a
\* sendMessage call has passed its key check and has not finished, isLoading
\* is true, and when none is in flight it is false.
C23_LoadingWhileInFlight ==
    isLoading <=> (sendPc = "running" \/ second.pc = "running")

C25_BalanceConsistent ==
    /\ balance.remaining = balance.total - balance.used
    /\ balance.remaining >= 0
    /\ balance.used >= 0

\* A new user has bought a package and a request has been paid from it.
C25_Witness ==
    /\ Len(transactions) = 2
    /\ transactions[1].type = "usage"
    /\ transactions[2].type = "purchase"
    /\ balance.used > 0
    /\ balance.remaining > 0

\* The cost the table gives the pairs that callers pass, and 1 for the others.
ClaimedCost(provider, model) ==
    CASE provider = "openai" /\ model = "gpt-4o" -> 3
      [] provider = "claude" /\ model = "claude-sonnet-4-20250514" -> 2
      [] OTHER -> 1

\* C26: useCredits(provider, model) returns true if and only if
\* hasEnoughCredits(provider, model) holds beforehand; when it returns false
\* the balance, the transaction list and the stored credits are unchanged;
\* when it returns true, remaining decreases and used increases by exactly the
\* request's cost, the table's value for the pair and 1 for a pair that the
\* table does not hold, and the usage is recorded and saved.
C26_UseCreditsChargesCost ==
    [][ uses' = uses + 1 =>
          /\ usage'.returned = hasEnoughCredits(usage'.provider, usage'.model)
          /\ usage'.returned = FALSE =>
               UNCHANGED <<balance, transactions, creditStorage>>
          /\ usage'.returned = TRUE =>
               LET cost == ClaimedCost(usage'.provider, usage'.model)
               IN  /\ balance'.remaining = balance.remaining - cost
                   /\ balance'.used = balance.used + cost
                   /\ balance'.total = balance.total
                   /\ Len(transactions') = Len(transactions) + 1
                   /\ transactions'[1].credits = 0 - cost
                   /\ creditStorage' = [has |-> TRUE, balance |-> balance',
                                        transactions |-> transactions']
      ]_vars

\* A request that cost all that remained has been paid, and the next request
\* has been refused.
C26_Witness ==
    /\ uses = 2
    /\ usage.returned = FALSE
    /\ balance.remaining = 0
    /\ balance.used = balance.total
    /\ balance.total > 0

\* C27: credit updates are not lost when operations overlap: the step that
\* completes a purchaseCredits call which was awaiting its payment adds the
\* package's credits to the remaining credits as they stand, keeps used, and
\* adds one entry to the transaction list as it stands, whatever useCredits
\* calls completed during the await.
C27_NoLostCreditUpdate ==
    [][ (purchasePc = "awaitingSol" /\ purchasePc' = "resolved") =>
          /\ balance'.remaining = balance.remaining + purchase.pkg.credits
          /\ balance'.total = balance.total + purchase.pkg.credits
          /\ balance'.used = balance.used
          /\ Len(transactions') = Len(transactions) + 1
      ]_vars

====
